---------------------------- MODULE Spec2Model ----------------------------
(* A model of PyTasksManager's task/tab state management.                 *)
(*                                                                        *)
(* The repository holds three independent programs over the same ideas:   *)
(*   app_main      the CLI of src/pytasksmanager/app_main.py: one JSON    *)
(*                 document per tab, an id counter per tab;               *)
(*   app_deepseek  the TUI of src/pytasksmanager/app_deepseek.py: one     *)
(*                 task file, one archive file, one tab list, a global    *)
(*                 id counter, modal dialogs with callbacks;              *)
(*   other_app     the TUI of src/pytasksmanager/other/app.py: as         *)
(*                 app_deepseek with "labels" for tabs.                   *)
(* The variable app says which program runs; it is chosen at start-up and *)
(* never changes, and each program only touches its own variables.        *)
EXTENDS Integers, Sequences, FiniteSets, Bags, TLC

\* ------------------------------------------------------------ bounds
\* Largest value of the wall clock, in seconds. Every handler that reads the
\* time finds the clock one second further, so MaxClock also bounds the number
\* of tasks created and of history entries written in one behaviour.
MaxClock == 2
\* Largest number of modal dialogs mounted at once.
MaxModals == 2
\* Largest number of tabs app_main holds in memory (create_tab has no limit).
MaxMainTabs == 2

\* ------------------------------------------------------------ inputs
\* The names a user types for a tab; "" is the empty input.
TabNames == {"A", "B"}
TabInputs == TabNames \cup {""}
\* The names typed by a user who renames tabs of app_deepseek or labels of
\* other_app with one more name at hand, so that a tab can be renamed while
\* every name of TabNames is taken.
RenameInputs == TabInputs \cup {"C"}
\* The titles and comments a user types.
Titles == {"t", "u"}
Comments == {"c"}
\* app_deepseek.py:66-71, other/app.py:78-83: the keys of state_colors.
state_colors == {"urgent", "in progress", "in pause", "finished"}
\* The states offered by the model's user (a subset of state_colors).
StateInputs == {"urgent", "finished"}
Apps == {"app_main", "app_deepseek", "other_app"}

VARIABLES
  app,               \* which program runs
  clock,             \* datetime.now(), in seconds
  raised,            \* an exception escaped a handler: the process is gone
  \* ---- app_deepseek / other_app: the TaskManagerApp object
  tasks,             \* self.tasks: the live Task objects, in list order
  tabs,              \* self.tabs (other_app: self.labels)
  next_id,           \* self.next_id
  selected_tab,      \* self.selected_tab (other_app: self.selected_label)
  selected_task_id,  \* self.selected_task_id, 0 for None
  modify_task_data,  \* id of the Task object self.modify_task_data refers to, 0 for None
  detached,          \* that object, once it is no longer in self.tasks
  new_task_data,     \* self.new_task_data: a dict
  modals,            \* the mounted modal widgets, each with its callback
  \* ---- app_deepseek / other_app: the files
  DATA_FILE,         \* tasks.json
  ARCHIVE_FILE,      \* archived_tasks.json
  TABS_FILE,         \* tabs.json (other_app: labels.json)
  \* ---- app_main
  main_tabs,         \* run_app's list of Tab objects
  current,           \* index of the tab task_operations works on, 0 at the tab menu
  DATA_DIR,          \* task_data/: file name (without .json) -> document
  \* ---- history variables (not program state)
  issued,            \* ids handed out in this session (deepseek/other: a sequence;
                     \* app_main: one sequence per tab object)
  past,              \* ids handed out in earlier sessions of the same store
  deleted            \* names of groups deleted and not created again since

dsVars == <<tasks, tabs, next_id, selected_tab, selected_task_id, modify_task_data,
            detached, new_task_data, modals, DATA_FILE, ARCHIVE_FILE, TABS_FILE>>
mainVars == <<main_tabs, current, DATA_DIR>>
vars == <<app, clock, raised, dsVars, mainVars, issued, past, deleted>>

\* ------------------------------------------------------------ helpers
SeqToSet(s) == {s[i] : i \in 1..Len(s)}
Max(S) == CHOOSE x \in S : \A y \in S : y <= x
\* [x for x in s if P(x)]
Filter(s, P(_)) == SelectSeq(s, P)
\* A file: absent, or holding a JSON array.
NoFile == [exists |-> FALSE, data |-> <<>>]
File(d) == [exists |-> TRUE, data |-> d]
\* datetime.now() read by a handler: one second after the last read.
Now == {c \in {clock + 1} : c <= MaxClock}


\* ------------------------------------------------------------ app_deepseek: persistence
\* app_deepseek.py:29-30 (asdict) and other/app.py:29-30. The field "tab" is
\* "label" in other/app.py.
Task_to_dict(t) ==
  [id |-> t.id, tab |-> t.tab, title |-> t.title, comment |-> t.comment,
   state |-> t.state, created_at |-> t.created_at,
   last_modified |-> t.last_modified, history |-> t.history]
\* app_deepseek.py:32-34: Task(**data).
Task_from_dict(d) ==
  [id |-> d.id, tab |-> d.tab, title |-> d.title, comment |-> d.comment,
   state |-> d.state, created_at |-> d.created_at,
   last_modified |-> d.last_modified, history |-> d.history]
\* app_deepseek.py:36-40 (and 46-50 for the archive).
load_tasks(f) ==
  IF f.exists THEN [i \in 1..Len(f.data) |-> Task_from_dict(f.data[i])] ELSE <<>>
\* app_deepseek.py:42-44 (and 52-54 for the archive).
save_tasks(ts) == File([i \in 1..Len(ts) |-> Task_to_dict(ts[i])])
\* app_deepseek.py:56-60.
load_tabs(f) == IF f.exists THEN f.data ELSE <<>>
\* app_deepseek.py:62-64.
save_tabs(ts) == File(ts)

\* ------------------------------------------------------------ app_deepseek: the object
\* app_deepseek.py:154: max((task.id for task in self.tasks), default=0) + 1.
InitNextId(ts) ==
  IF ts = <<>> THEN 1 ELSE Max({ts[i].id : i \in 1..Len(ts)}) + 1
\* A faulty start that takes the tabs file as it is.
RepairNothing(tb, ts) == tb
\* app_deepseek.py:157-159: every loaded task's tab is appended when missing.
RECURSIVE RepairTabs(_, _)
RepairTabs(tb, ts) ==
  IF ts = <<>> THEN tb
  ELSE RepairTabs(IF Head(ts).tab \in SeqToSet(tb) THEN tb ELSE Append(tb, Head(ts).tab),
                  Tail(ts))
\* self.new_task_data before action_add_task has run: no keys.
EmptyDict == [k \in {} |-> ""]
\* A mounted modal: its callback, the options of an OptionModal, the task id
\* its prompt shows, and the tab name its prompt shows (for the modal of
\* update_task_field: the name of the field it edits).
Modal(cb, options, id, name) == [cb |-> cb, options |-> options, id |-> id, name |-> name]
Mounted(m) == BagIn(m, modals)
CanMount == BagCardinality(modals) < MaxModals
ids(ts) == {ts[i].id : i \in 1..Len(ts)}
\* next((t for t in self.tasks if t.id == i), None): the first match.
IndexOfId(ts, i) == CHOOSE k \in 1..Len(ts) : ts[k].id = i /\ \A j \in 1..(k-1) : ts[j].id # i
\* The object self.modify_task_data refers to.
ModifyTarget ==
  IF modify_task_data \in ids(tasks) THEN tasks[IndexOfId(tasks, modify_task_data)]
  ELSE detached
NoTask == [id |-> 0, tab |-> "", title |-> "", comment |-> "", state |-> "",
           created_at |-> 0, last_modified |-> 0, history |-> <<>>]
\* The object self.modify_task_data refers to after the live list changed from
\* ts to ts2: it stays reachable through the reference when the list drops it.
Detach(ts, ts2) ==
  IF modify_task_data \in ids(ts) /\ modify_task_data \notin ids(ts2)
  THEN ts[IndexOfId(ts, modify_task_data)]
  ELSE detached

\* self.new_task_data is read only by the callbacks of an add chain's modals,
\* and action_add_task replaces it before it mounts the first of them. Once no
\* such modal is mounted nothing can read the dict, and the model keeps it
\* empty from then on.
AddChainOpen(ms) ==
  \E m \in BagToSet(ms) :
    m.cb \in {"add_task_label", "add_task_title", "add_task_comment", "add_task_state"}
KeptDict(d, ms) == IF AddChainOpen(ms) THEN d ELSE EmptyDict
\* Likewise self.modify_task_data is read only by the callbacks of a modify
\* chain's modals, and action_modify_task sets it before it mounts the first.
ModifyChainOpen(ms) ==
  \E m \in BagToSet(ms) : m.cb \in {"handle_modify_choice", "update_task_field"}
KeptRef(r, ms) == IF ModifyChainOpen(ms) THEN r ELSE 0
KeptObject(o, ms) == IF ModifyChainOpen(ms) THEN o ELSE NoTask

\* app_deepseek.py:148-160 on an empty directory.
InitDeepseek ==
  /\ tasks = <<>>
  /\ tabs = <<>>
  /\ next_id = 1
  /\ selected_tab = "All"
  /\ selected_task_id = 0
  /\ modify_task_data = 0
  /\ detached = NoTask
  /\ new_task_data = EmptyDict
  /\ modals = EmptyBag
  /\ DATA_FILE = NoFile
  /\ ARCHIVE_FILE = NoFile
  /\ TABS_FILE = IF app = "app_main" THEN NoFile ELSE File(<<>>)

Running(a) == app = a /\ ~raised

\* ------------------------------------------------------------ app_deepseek: handlers
\* What no app_deepseek handler touches.
dsFrame == UNCHANGED <<app, raised, mainVars>>

\* app_deepseek.py:412-415. The list view shows "All" and the tabs (refresh_tabs).
on_list_view_selected(tab) ==
  /\ Running("app_deepseek")
  /\ tab \in {"All"} \cup SeqToSet(tabs)
  /\ selected_tab' = tab
  /\ UNCHANGED <<tasks, tabs, next_id, selected_task_id, modify_task_data, detached,
                 new_task_data, modals, DATA_FILE, ARCHIVE_FILE, TABS_FILE>>
  /\ UNCHANGED <<clock, issued, past, deleted>>
  /\ dsFrame

\* app_deepseek.py:199-211: the rows of the task table.
tasks_to_show == Filter(tasks, LAMBDA t : selected_tab = "All" \/ t.tab = selected_tab)

\* app_deepseek.py:417-419.
on_data_table_row_selected(row) ==
  /\ Running("app_deepseek")
  /\ row \in 1..Len(tasks_to_show)
  /\ selected_task_id' = tasks_to_show[row].id
  /\ UNCHANGED <<tasks, tabs, next_id, selected_tab, modify_task_data, detached,
                 new_task_data, modals, DATA_FILE, ARCHIVE_FILE, TABS_FILE>>
  /\ UNCHANGED <<clock, issued, past, deleted>>
  /\ dsFrame

\* app_deepseek.py:226-232. With "All" selected the handler only prints.
action_add_task ==
  /\ Running("app_deepseek")
  /\ selected_tab # "All"
  /\ CanMount
  /\ new_task_data' = [k \in {"tab"} |-> selected_tab]
  /\ modals' = modals (+) SetToBag({Modal("add_task_title", {}, 0, "")})
  /\ UNCHANGED <<tasks, tabs, next_id, selected_tab, selected_task_id, modify_task_data,
                 detached, DATA_FILE, ARCHIVE_FILE, TABS_FILE>>
  /\ UNCHANGED <<clock, issued, past, deleted>>
  /\ dsFrame

\* d[k] = v on a dict.
DictSet(d, k, v) == [x \in DOMAIN d \cup {k} |-> IF x = k THEN v ELSE d[x]]

\* app_deepseek.py:234-236 (the title modal's OK: callback, then remove).
add_task_title(title) ==
  /\ Running("app_deepseek")
  /\ Mounted(Modal("add_task_title", {}, 0, ""))
  /\ new_task_data' = DictSet(new_task_data, "title", title)
  /\ modals' = (modals (-) SetToBag({Modal("add_task_title", {}, 0, "")}))
                 (+) SetToBag({Modal("add_task_comment", {}, 0, "")})
  /\ UNCHANGED <<tasks, tabs, next_id, selected_tab, selected_task_id, modify_task_data,
                 detached, DATA_FILE, ARCHIVE_FILE, TABS_FILE>>
  /\ UNCHANGED <<clock, issued, past, deleted>>
  /\ dsFrame

\* app_deepseek.py:241-250: the Task built from self.new_task_data.
NewTask(d, id, now) ==
  [id |-> id, tab |-> d["tab"], title |-> d["title"], comment |-> d["comment"],
   state |-> "in progress", created_at |-> now, last_modified |-> now,
   history |-> << <<now, "Task created">> >>]
\* A faulty counter that stays where it is.
NextIdStuck(n) == n
\* app_deepseek.py:251: self.next_id += 1.
NextIdAfterAdd(n) == n + 1

\* app_deepseek.py:238-254. A key another chain's action_add_task dropped from
\* the shared dict raises KeyError at line 244.
add_task_comment(comment) ==
  /\ Running("app_deepseek")
  /\ Mounted(Modal("add_task_comment", {}, 0, ""))
  /\ IF "title" \in DOMAIN new_task_data
     THEN /\ \E now \in Now :
               /\ clock' = now
               /\ tasks' = Append(tasks, NewTask(DictSet(new_task_data, "comment", comment),
                                                 next_id, now))
          /\ next_id' = NextIdAfterAdd(next_id)
          /\ DATA_FILE' = save_tasks(tasks')
          /\ issued' = Append(issued, next_id)
          /\ modals' = modals (-) SetToBag({Modal("add_task_comment", {}, 0, "")})
          /\ new_task_data' = KeptDict(DictSet(new_task_data, "comment", comment), modals')
          /\ UNCHANGED raised
     ELSE /\ raised' = TRUE
          /\ new_task_data' = DictSet(new_task_data, "comment", comment)
          /\ UNCHANGED <<clock, tasks, next_id, DATA_FILE, issued, modals>>
  /\ UNCHANGED <<tabs, selected_tab, selected_task_id, modify_task_data, detached,
                 ARCHIVE_FILE, TABS_FILE>>
  /\ UNCHANGED <<past, deleted>>
  /\ UNCHANGED <<app, mainVars>>

\* app_deepseek.py:256-276: the confirmation modal is mounted for the task
\* selected now; its prompt shows that task's id.
action_delete_task ==
  /\ Running("app_deepseek")
  /\ selected_task_id # 0
  /\ selected_task_id \in ids(tasks)
  /\ CanMount
  /\ modals' = modals (+) SetToBag({Modal("delete_task_confirmed", {}, selected_task_id, "")})
  /\ UNCHANGED <<tasks, tabs, next_id, selected_tab, selected_task_id, modify_task_data,
                 detached, new_task_data, DATA_FILE, ARCHIVE_FILE, TABS_FILE>>
  /\ UNCHANGED <<clock, issued, past, deleted>>
  /\ dsFrame

\* app_deepseek.py:268: [t for t in self.tasks if t.id != self.selected_task_id],
\* with self.selected_task_id read when the modal is answered.
TasksAfterDelete(ts, sel) == Filter(ts, LAMBDA t : t.id # sel)

\* app_deepseek.py:266-271 with ConfirmationModal.on_button_pressed (138-143).
delete_task_confirmed(m, confirmed) ==
  /\ Running("app_deepseek")
  /\ m.cb = "delete_task_confirmed"
  /\ Mounted(m)
  /\ modals' = modals (-) SetToBag({m})
  /\ IF confirmed
     THEN /\ tasks' = TasksAfterDelete(tasks, selected_task_id)
          /\ DATA_FILE' = save_tasks(tasks')
          /\ selected_task_id' = 0
          /\ detached' = Detach(tasks, tasks')
     ELSE UNCHANGED <<tasks, DATA_FILE, selected_task_id, detached>>
  /\ UNCHANGED <<tabs, next_id, selected_tab, modify_task_data, new_task_data,
                 ARCHIVE_FILE, TABS_FILE>>
  /\ UNCHANGED <<clock, issued, past, deleted>>
  /\ dsFrame

\* app_deepseek.py:278-293.
action_modify_task ==
  /\ Running("app_deepseek")
  /\ selected_task_id # 0
  /\ selected_task_id \in ids(tasks)
  /\ CanMount
  /\ modify_task_data' = selected_task_id
  /\ detached' = NoTask
  /\ modals' = modals (+) SetToBag({Modal("handle_modify_choice", {}, 0, "")})
  /\ UNCHANGED <<tasks, tabs, next_id, selected_tab, selected_task_id, new_task_data,
                 DATA_FILE, ARCHIVE_FILE, TABS_FILE>>
  /\ UNCHANGED <<clock, issued, past, deleted>>
  /\ dsFrame

\* app_deepseek.py:295-319: the modal mounted for each choice. The tab options
\* are the tabs when the modal is built (OptionModal.__init__, line 107).
ChoiceModal(choice) ==
  CASE choice = "Title" -> Modal("update_task_field", {}, 0, "title")
    [] choice = "Comment" -> Modal("update_task_field", {}, 0, "comment")
    [] choice = "State" -> Modal("update_task_field", state_colors, 0, "state")
    [] choice = "Tab" -> Modal("update_task_field", SeqToSet(tabs), 0, "tab")

handle_modify_choice(choice) ==
  /\ Running("app_deepseek")
  /\ Mounted(Modal("handle_modify_choice", {}, 0, ""))
  /\ modals' = (modals (-) SetToBag({Modal("handle_modify_choice", {}, 0, "")}))
                 (+) SetToBag({ChoiceModal(choice)})
  /\ UNCHANGED <<tasks, tabs, next_id, selected_tab, selected_task_id, modify_task_data,
                 detached, new_task_data, DATA_FILE, ARCHIVE_FILE, TABS_FILE>>
  /\ UNCHANGED <<clock, issued, past, deleted>>
  /\ dsFrame

\* A faulty update that keeps only the newest history entry.
UpdatedTaskForgets(t, field, value, now) ==
  [[t EXCEPT ![field] = value] EXCEPT
     !.last_modified = now,
     !.history = << <<now, "Changed", field, t[field], value>> >>]
\* app_deepseek.py:323-328: setattr, last_modified, history.append.
UpdatedTask(t, field, value, now) ==
  [[t EXCEPT ![field] = value] EXCEPT
     !.last_modified = now,
     !.history = Append(t.history, <<now, "Changed", field, t[field], value>>)]

\* The values the model's user gives the modal m of update_task_field.
FieldInputs(m) ==
  CASE m.name = "title" -> Titles
    [] m.name = "comment" -> Comments
    [] m.name = "state" -> StateInputs
    [] m.name = "tab" -> TabNames
    [] OTHER -> {}

\* app_deepseek.py:321-330. The object written to is the one action_modify_task
\* stored, whether or not self.tasks still holds it.
update_task_field(m, value) ==
  /\ Running("app_deepseek")
  /\ m.cb = "update_task_field"
  /\ Mounted(m)
  /\ m.name \in {"state", "tab"} => value \in m.options
  /\ modals' = modals (-) SetToBag({m})
  /\ \E now \in Now :
       /\ clock' = now
       /\ IF modify_task_data \in ids(tasks)
          THEN /\ tasks' = [tasks EXCEPT ![IndexOfId(tasks, modify_task_data)] =
                               UpdatedTask(@, m.name, value, now)]
               /\ detached' = KeptObject(detached, modals')
          ELSE /\ detached' = KeptObject(UpdatedTask(detached, m.name, value, now), modals')
               /\ UNCHANGED tasks
  /\ modify_task_data' = KeptRef(modify_task_data, modals')
  /\ DATA_FILE' = save_tasks(tasks')
  /\ UNCHANGED <<tabs, next_id, selected_tab, selected_task_id,
                 new_task_data, ARCHIVE_FILE, TABS_FILE>>
  /\ UNCHANGED <<issued, past, deleted>>
  /\ dsFrame

\* app_deepseek.py:332-333.
action_add_tab ==
  /\ Running("app_deepseek")
  /\ CanMount
  /\ modals' = modals (+) SetToBag({Modal("add_new_tab", {}, 0, "")})
  /\ UNCHANGED <<tasks, tabs, next_id, selected_tab, selected_task_id, modify_task_data,
                 detached, new_task_data, DATA_FILE, ARCHIVE_FILE, TABS_FILE>>
  /\ UNCHANGED <<clock, issued, past, deleted>>
  /\ dsFrame

\* app_deepseek.py:336: if tab and tab not in self.tabs.
AddTabAccepted(tb, tab) == tab # "" /\ tab \notin SeqToSet(tb)

\* app_deepseek.py:335-339.
add_new_tab(tab) ==
  /\ Running("app_deepseek")
  /\ Mounted(Modal("add_new_tab", {}, 0, ""))
  /\ modals' = modals (-) SetToBag({Modal("add_new_tab", {}, 0, "")})
  /\ IF AddTabAccepted(tabs, tab)
     THEN /\ tabs' = Append(tabs, tab)
          /\ TABS_FILE' = save_tabs(tabs')
          /\ deleted' = deleted \ {tab}
     ELSE UNCHANGED <<tabs, TABS_FILE, deleted>>
  /\ UNCHANGED <<tasks, next_id, selected_tab, selected_task_id, modify_task_data,
                 detached, new_task_data, DATA_FILE, ARCHIVE_FILE>>
  /\ UNCHANGED <<clock, issued, past>>
  /\ dsFrame

\* app_deepseek.py:341-345. The prompt shows the tab selected now.
action_modify_tab ==
  /\ Running("app_deepseek")
  /\ selected_tab # "All"
  /\ CanMount
  /\ modals' = modals (+) SetToBag({Modal("modify_tab_callback", {}, 0, selected_tab)})
  /\ UNCHANGED <<tasks, tabs, next_id, selected_tab, selected_task_id, modify_task_data,
                 detached, new_task_data, DATA_FILE, ARCHIVE_FILE, TABS_FILE>>
  /\ UNCHANGED <<clock, issued, past, deleted>>
  /\ dsFrame

\* app_deepseek.py:348: if not new_tab or new_tab in self.tabs: return.
RenameRefused(tb, new_tab) == new_tab = "" \/ new_tab \in SeqToSet(tb)
\* self.tabs.index(x): the first position of x.
IndexOf(s, x) == CHOOSE k \in 1..Len(s) : s[k] = x /\ \A j \in 1..(k-1) : s[j] # x
\* A faulty rename that moves every task to new_tab.
RetabEveryTask(ts, old_tab, new_tab) == [i \in 1..Len(ts) |-> [ts[i] EXCEPT !.tab = new_tab]]
\* app_deepseek.py:354-356: the tasks of old_tab get new_tab, nothing else changes.
RetabTasks(ts, old_tab, new_tab) ==
  [i \in 1..Len(ts) |-> IF ts[i].tab = old_tab THEN [ts[i] EXCEPT !.tab = new_tab] ELSE ts[i]]

\* app_deepseek.py:347-360. old_tab is self.selected_tab when the modal is
\* answered; self.tabs.index raises ValueError when it is not a tab.
modify_tab_callback(m, new_tab) ==
  /\ Running("app_deepseek")
  /\ m.cb = "modify_tab_callback"
  /\ Mounted(m)
  /\ IF RenameRefused(tabs, new_tab)
     THEN /\ modals' = modals (-) SetToBag({m})
          /\ UNCHANGED <<tabs, TABS_FILE, tasks, DATA_FILE, selected_tab, deleted, raised>>
     ELSE IF selected_tab \notin SeqToSet(tabs)
     THEN /\ raised' = TRUE
          /\ UNCHANGED <<modals, tabs, TABS_FILE, tasks, DATA_FILE, selected_tab, deleted>>
     ELSE /\ modals' = modals (-) SetToBag({m})
          /\ tabs' = [tabs EXCEPT ![IndexOf(tabs, selected_tab)] = new_tab]
          /\ TABS_FILE' = save_tabs(tabs')
          /\ tasks' = RetabTasks(tasks, selected_tab, new_tab)
          /\ DATA_FILE' = save_tasks(tasks')
          /\ selected_tab' = new_tab
          /\ deleted' = deleted \ {new_tab}
          /\ UNCHANGED raised
  /\ UNCHANGED <<next_id, selected_task_id, modify_task_data, detached, new_task_data,
                 ARCHIVE_FILE>>
  /\ UNCHANGED <<clock, issued, past>>
  /\ UNCHANGED <<app, mainVars>>

\* app_deepseek.py:362-380. The prompt shows the tab selected now.
action_delete_tab ==
  /\ Running("app_deepseek")
  /\ selected_tab # "All"
  /\ CanMount
  /\ modals' = modals (+) SetToBag({Modal("delete_tab_confirmed", {}, 0, selected_tab)})
  /\ UNCHANGED <<tasks, tabs, next_id, selected_tab, selected_task_id, modify_task_data,
                 detached, new_task_data, DATA_FILE, ARCHIVE_FILE, TABS_FILE>>
  /\ UNCHANGED <<clock, issued, past, deleted>>
  /\ dsFrame

\* self.tabs.remove(x): the first occurrence goes.
Remove(s, x) == [i \in 1..(Len(s) - 1) |-> IF i < IndexOf(s, x) THEN s[i] ELSE s[i + 1]]
\* A faulty delete that keeps the tasks of the tab.
TasksKeptOnDeleteTab(ts, tab) == ts
\* app_deepseek.py:370: [t for t in self.tasks if t.tab != self.selected_tab].
TasksAfterDeleteTab(ts, tab) == Filter(ts, LAMBDA t : t.tab # tab)

\* app_deepseek.py:367-375 with ConfirmationModal.on_button_pressed (138-143).
\* The tab removed is self.selected_tab when the modal is answered;
\* list.remove raises ValueError when it is not a tab.
delete_tab_confirmed(m, confirmed) ==
  /\ Running("app_deepseek")
  /\ m.cb = "delete_tab_confirmed"
  /\ Mounted(m)
  /\ IF ~confirmed
     THEN /\ modals' = modals (-) SetToBag({m})
          /\ UNCHANGED <<tabs, TABS_FILE, tasks, DATA_FILE, selected_tab, detached,
                         deleted, raised>>
     ELSE IF selected_tab \notin SeqToSet(tabs)
     THEN /\ raised' = TRUE
          /\ UNCHANGED <<modals, tabs, TABS_FILE, tasks, DATA_FILE, selected_tab,
                         detached, deleted>>
     ELSE /\ modals' = modals (-) SetToBag({m})
          /\ tabs' = Remove(tabs, selected_tab)
          /\ tasks' = TasksAfterDeleteTab(tasks, selected_tab)
          /\ TABS_FILE' = save_tabs(tabs')
          /\ DATA_FILE' = save_tasks(tasks')
          /\ selected_tab' = "All"
          /\ detached' = Detach(tasks, tasks')
          /\ deleted' = deleted \cup {selected_tab}
          /\ UNCHANGED raised
  /\ UNCHANGED <<next_id, selected_task_id, modify_task_data, new_task_data, ARCHIVE_FILE>>
  /\ UNCHANGED <<clock, issued, past>>
  /\ UNCHANGED <<app, mainVars>>

\* app_deepseek.py:383 and 388: the finished tasks and the others.
Finished(ts) == Filter(ts, LAMBDA t : t.state = "finished")
\* A faulty filter that keeps every task in the live list.
UnfinishedKeepsAll(ts) == ts
\* A faulty filing that empties the live list.
UnfinishedDropsAll(ts) == <<>>
Unfinished(ts) == Filter(ts, LAMBDA t : t.state # "finished")
\* A faulty archive that holds the tasks of the last filing only.
ExtendForgets(archived, finished_tasks) == finished_tasks
\* app_deepseek.py:385: archived.extend(finished_tasks).
extend(archived, finished_tasks) == archived \o finished_tasks
\* app_deepseek.py:382-390: what the handler hands its caller about the tasks
\* it moved. The coroutine has no return statement and shows no message.
FilingReport(finished_tasks) == <<>>

\* app_deepseek.py:382-390.
action_file_tasks ==
  /\ Running("app_deepseek")
  /\ IF Finished(tasks) # <<>>
     THEN /\ ARCHIVE_FILE' = save_tasks(extend(load_tasks(ARCHIVE_FILE), Finished(tasks)))
          /\ tasks' = Unfinished(tasks)
          /\ DATA_FILE' = save_tasks(tasks')
          /\ detached' = Detach(tasks, tasks')
     ELSE UNCHANGED <<ARCHIVE_FILE, tasks, DATA_FILE, detached>>
  /\ UNCHANGED <<tabs, next_id, selected_tab, selected_task_id, modify_task_data,
                 new_task_data, modals, TABS_FILE>>
  /\ UNCHANGED <<clock, issued, past, deleted>>
  /\ dsFrame

\* The Cancel button of a modal (app_deepseek.py:98-99, 118-119): the widget
\* goes, its callback does not run.
cancel_modal(m) ==
  /\ Running("app_deepseek")
  /\ Mounted(m)
  /\ m.cb \notin {"delete_task_confirmed", "delete_tab_confirmed"}
  /\ modals' = modals (-) SetToBag({m})
  /\ new_task_data' = KeptDict(new_task_data, modals')
  /\ modify_task_data' = KeptRef(modify_task_data, modals')
  /\ detached' = KeptObject(detached, modals')
  /\ UNCHANGED <<tasks, tabs, next_id, selected_tab, selected_task_id,
                 DATA_FILE, ARCHIVE_FILE, TABS_FILE>>
  /\ UNCHANGED <<clock, issued, past, deleted>>
  /\ dsFrame

\* The program ends (action_exit, app_deepseek.py:392-393, or an exception) and
\* is started again: TaskManagerApp.__init__, app_deepseek.py:148-160.
restart_deepseek ==
  /\ app = "app_deepseek"
  /\ raised' = FALSE
  /\ tasks' = load_tasks(DATA_FILE)
  /\ selected_tab' = "All"
  /\ selected_task_id' = 0
  /\ tabs' = RepairTabs(load_tabs(TABS_FILE), tasks')
  /\ next_id' = InitNextId(tasks')
  /\ modify_task_data' = 0
  /\ detached' = NoTask
  /\ TABS_FILE' = save_tabs(tabs')
  /\ new_task_data' = EmptyDict
  /\ modals' = EmptyBag
  /\ issued' = <<>>
  /\ past' = past \cup SeqToSet(issued)
  /\ UNCHANGED <<DATA_FILE, ARCHIVE_FILE, deleted, clock>>
  /\ UNCHANGED <<app, mainVars>>

\* ------------------------------------------------------------ other_app: handlers
\* other/app.py keeps the same object and files as app_deepseek; self.labels is
\* modelled by tabs, self.selected_label by selected_tab, Task.label by the
\* field tab, labels.json by TABS_FILE. It has no task selection and no
\* modify chain.
otherFrame == UNCHANGED <<app, mainVars, selected_task_id, modify_task_data, detached>>

\* other/app.py:302-305.
other_on_list_view_selected(label) ==
  /\ Running("other_app")
  /\ label \in {"All"} \cup SeqToSet(tabs)
  /\ selected_tab' = label
  /\ UNCHANGED <<tasks, tabs, next_id, new_task_data, modals, DATA_FILE, ARCHIVE_FILE,
                 TABS_FILE, clock, raised, issued, past, deleted>>
  /\ otherFrame

\* other/app.py:187-190.
other_action_add_task ==
  /\ Running("other_app")
  /\ CanMount
  /\ new_task_data' = EmptyDict
  /\ modals' = modals (+) SetToBag({Modal("add_task_label", {}, 0, "")})
  /\ UNCHANGED <<tasks, tabs, next_id, selected_tab, DATA_FILE, ARCHIVE_FILE, TABS_FILE,
                 clock, raised, issued, past, deleted>>
  /\ otherFrame

\* other/app.py:192-198: an unknown label is registered on the way.
other_add_task_label(label) ==
  /\ Running("other_app")
  /\ Mounted(Modal("add_task_label", {}, 0, ""))
  /\ IF label \notin SeqToSet(tabs)
     THEN /\ tabs' = Append(tabs, label)
          /\ TABS_FILE' = save_tabs(tabs')
          /\ deleted' = deleted \ {label}
     ELSE UNCHANGED <<tabs, TABS_FILE, deleted>>
  /\ new_task_data' = DictSet(new_task_data, "tab", label)
  /\ modals' = (modals (-) SetToBag({Modal("add_task_label", {}, 0, "")}))
                 (+) SetToBag({Modal("add_task_title", {}, 0, "")})
  /\ UNCHANGED <<tasks, next_id, selected_tab, DATA_FILE, ARCHIVE_FILE,
                 clock, raised, issued, past>>
  /\ otherFrame

\* other/app.py:200-202.
other_add_task_title(title) ==
  /\ Running("other_app")
  /\ Mounted(Modal("add_task_title", {}, 0, ""))
  /\ new_task_data' = DictSet(new_task_data, "title", title)
  /\ modals' = (modals (-) SetToBag({Modal("add_task_title", {}, 0, "")}))
                 (+) SetToBag({Modal("add_task_comment", {}, 0, "")})
  /\ UNCHANGED <<tasks, tabs, next_id, selected_tab, DATA_FILE, ARCHIVE_FILE, TABS_FILE,
                 clock, raised, issued, past, deleted>>
  /\ otherFrame

\* other/app.py:204-206.
other_add_task_comment(comment) ==
  /\ Running("other_app")
  /\ Mounted(Modal("add_task_comment", {}, 0, ""))
  /\ new_task_data' = DictSet(new_task_data, "comment", comment)
  /\ modals' = (modals (-) SetToBag({Modal("add_task_comment", {}, 0, "")}))
                 (+) SetToBag({Modal("add_task_state", {}, 0, "")})
  /\ UNCHANGED <<tasks, tabs, next_id, selected_tab, DATA_FILE, ARCHIVE_FILE, TABS_FILE,
                 clock, raised, issued, past, deleted>>
  /\ otherFrame

\* The texts a user types for a state in other_app.
OtherStateInputs == {"finished", "Urgent ", "bogus"}
\* str.lower().strip() on those texts (other/app.py:209).
LowerStrip(s) == IF s = "Urgent " THEN "urgent" ELSE s
\* A faulty normalisation that keeps whatever was typed.
StateAsTyped(s) == s
\* other/app.py:209-211.
NormalState(s) == IF LowerStrip(s) \notin state_colors THEN "in progress" ELSE LowerStrip(s)
\* other/app.py:214-223.
OtherNewTask(d, id, state, now) ==
  [id |-> id, tab |-> d["tab"], title |-> d["title"], comment |-> d["comment"],
   state |-> state, created_at |-> now, last_modified |-> now,
   history |-> << <<now, "Task created with state", state>> >>]

\* other/app.py:208-227. A key another chain's action_add_task dropped from the
\* shared dict raises KeyError at line 216.
other_add_task_state(state) ==
  /\ Running("other_app")
  /\ Mounted(Modal("add_task_state", {}, 0, ""))
  /\ IF {"tab", "title", "comment"} \subseteq DOMAIN new_task_data
     THEN /\ \E now \in Now :
               /\ clock' = now
               /\ tasks' = Append(tasks, OtherNewTask(new_task_data, next_id,
                                                      NormalState(state), now))
          /\ next_id' = NextIdAfterAdd(next_id)
          /\ DATA_FILE' = save_tasks(tasks')
          /\ issued' = Append(issued, next_id)
          /\ modals' = modals (-) SetToBag({Modal("add_task_state", {}, 0, "")})
          /\ new_task_data' = KeptDict(DictSet(new_task_data, "state", NormalState(state)),
                                       modals')
          /\ UNCHANGED raised
     ELSE /\ raised' = TRUE
          /\ new_task_data' = DictSet(new_task_data, "state", NormalState(state))
          /\ UNCHANGED <<clock, tasks, next_id, DATA_FILE, issued, modals>>
  /\ UNCHANGED <<tabs, selected_tab, ARCHIVE_FILE, TABS_FILE, past, deleted>>
  /\ otherFrame

\* other/app.py:229-230.
other_action_add_label ==
  /\ Running("other_app")
  /\ CanMount
  /\ modals' = modals (+) SetToBag({Modal("add_new_label", {}, 0, "")})
  /\ UNCHANGED <<tasks, tabs, next_id, selected_tab, new_task_data, DATA_FILE,
                 ARCHIVE_FILE, TABS_FILE, clock, raised, issued, past, deleted>>
  /\ otherFrame

\* other/app.py:232-239.
other_add_new_label(label) ==
  /\ Running("other_app")
  /\ Mounted(Modal("add_new_label", {}, 0, ""))
  /\ modals' = modals (-) SetToBag({Modal("add_new_label", {}, 0, "")})
  /\ IF AddTabAccepted(tabs, label)
     THEN /\ tabs' = Append(tabs, label)
          /\ TABS_FILE' = save_tabs(tabs')
          /\ deleted' = deleted \ {label}
     ELSE UNCHANGED <<tabs, TABS_FILE, deleted>>
  /\ UNCHANGED <<tasks, next_id, selected_tab, new_task_data, DATA_FILE, ARCHIVE_FILE,
                 clock, raised, issued, past>>
  /\ otherFrame

\* other/app.py:241-247. With "All" selected the handler only reports.
other_action_modify_label ==
  /\ Running("other_app")
  /\ selected_tab # "All"
  /\ CanMount
  /\ modals' = modals (+) SetToBag({Modal("modify_label_callback", {}, 0, selected_tab)})
  /\ UNCHANGED <<tasks, tabs, next_id, selected_tab, new_task_data, DATA_FILE,
                 ARCHIVE_FILE, TABS_FILE, clock, raised, issued, past, deleted>>
  /\ otherFrame

\* other/app.py:265-269: the tasks of old_label get new_label, a new
\* last_modified and one more history entry.
RelabelTasks(ts, old_label, new_label, now) ==
  [i \in 1..Len(ts) |->
     IF ts[i].tab = old_label
     THEN [ts[i] EXCEPT !.tab = new_label, !.last_modified = now,
                        !.history = Append(@, <<now, "Label changed", old_label, new_label>>)]
     ELSE ts[i]]

\* other/app.py:249-273. old_label is self.selected_label when the modal is
\* answered; a selected label that is no label is reported and nothing changes.
other_modify_label_callback(m, new_label) ==
  /\ Running("other_app")
  /\ m.cb = "modify_label_callback"
  /\ Mounted(m)
  /\ modals' = modals (-) SetToBag({m})
  /\ IF new_label = "" \/ new_label \in SeqToSet(tabs) \/ selected_tab \notin SeqToSet(tabs)
     THEN UNCHANGED <<tabs, TABS_FILE, tasks, DATA_FILE, selected_tab, deleted, clock>>
     ELSE /\ tabs' = [tabs EXCEPT ![IndexOf(tabs, selected_tab)] = new_label]
          /\ TABS_FILE' = save_tabs(tabs')
          /\ \E now \in Now :
               /\ clock' = now
               /\ tasks' = RelabelTasks(tasks, selected_tab, new_label, now)
          /\ DATA_FILE' = save_tasks(tasks')
          /\ selected_tab' = new_label
          /\ deleted' = deleted \ {new_label}
  /\ UNCHANGED <<next_id, new_task_data, ARCHIVE_FILE, raised, issued, past>>
  /\ otherFrame

\* other/app.py:275-287. Both branches end with "await self.console.print(...)":
\* Console.print returns None, and awaiting None raises TypeError once the
\* files are written.
other_action_file_tasks ==
  /\ Running("other_app")
  /\ IF Finished(tasks) # <<>>
     THEN /\ ARCHIVE_FILE' = save_tasks(extend(load_tasks(ARCHIVE_FILE), Finished(tasks)))
          /\ tasks' = Unfinished(tasks)
          /\ DATA_FILE' = save_tasks(tasks')
     ELSE UNCHANGED <<ARCHIVE_FILE, tasks, DATA_FILE>>
  /\ raised' = TRUE
  /\ UNCHANGED <<tabs, next_id, selected_tab, new_task_data, modals, TABS_FILE,
                 clock, issued, past, deleted>>
  /\ UNCHANGED <<app, mainVars, selected_task_id, modify_task_data, detached>>

\* The Cancel button of an InputModal (other/app.py:106-107).
other_cancel_modal(m) ==
  /\ Running("other_app")
  /\ Mounted(m)
  /\ modals' = modals (-) SetToBag({m})
  /\ new_task_data' = KeptDict(new_task_data, modals')
  /\ UNCHANGED <<tasks, tabs, next_id, selected_tab, DATA_FILE,
                 ARCHIVE_FILE, TABS_FILE, clock, raised, issued, past, deleted>>
  /\ otherFrame

\* The program ends and is started again: TaskManagerApp.__init__,
\* other/app.py:113-125.
restart_other ==
  /\ app = "other_app"
  /\ raised' = FALSE
  /\ tasks' = load_tasks(DATA_FILE)
  /\ selected_tab' = "All"
  /\ tabs' = RepairTabs(load_tabs(TABS_FILE), tasks')
  /\ TABS_FILE' = save_tabs(tabs')
  /\ next_id' = InitNextId(tasks')
  /\ new_task_data' = EmptyDict
  /\ modals' = EmptyBag
  /\ issued' = <<>>
  /\ past' = past \cup SeqToSet(issued)
  /\ UNCHANGED <<DATA_FILE, ARCHIVE_FILE, deleted, clock>>
  /\ otherFrame

\* ------------------------------------------------------------ app_main: persistence
\* app_main.py:40-45: the keys of Task.STATE_MAP and the names they stand for.
STATE_MAP == [u |-> "Urgent", p |-> "In Pause", g |-> "Started", f |-> "Finished"]
\* The states the model's user picks in app_main (keys of STATE_MAP): for a
\* new task, and for an edit; and the titles typed for an edit.
MainAddStates == {"u"}
MainStateInputs == {"u", "f"}
MainEditTitles == {"u"}

\* app_main.py:56-65.
MainTask_to_dict(t) ==
  [id |-> t.id, title |-> t.title, state |-> t.state, comment |-> t.comment,
   created_at |-> t.created_at, modified_at |-> t.modified_at, history |-> t.history]
\* app_main.py:67-77.
MainTask_from_dict(d) ==
  [id |-> d.id, title |-> d.title, state |-> d.state, comment |-> d.comment,
   created_at |-> d.created_at, modified_at |-> d.modified_at, history |-> d.history]
\* app_main.py:18-21: Tab.__init__.
Tab(name, ts) ==
  [name |-> name, tasks |-> ts, task_counter |-> IF ts # <<>> THEN Len(ts) + 1 ELSE 1]
\* app_main.py:23-28.
Tab_to_dict(tab) ==
  [name |-> tab.name,
   tasks |-> [i \in 1..Len(tab.tasks) |-> MainTask_to_dict(tab.tasks[i])],
   task_counter |-> tab.task_counter]
\* A faulty load that ignores the saved counter.
CounterFromLength(data) == Len(data.tasks) + 1
\* app_main.py:36: data.get('task_counter', len(data['tasks']) + 1).
CounterOf(data) ==
  IF "task_counter" \in DOMAIN data THEN data.task_counter ELSE Len(data.tasks) + 1
\* app_main.py:30-37.
Tab_from_dict(data) ==
  [Tab(data.name, [i \in 1..Len(data.tasks) |-> MainTask_from_dict(data.tasks[i])])
     EXCEPT !.task_counter = CounterOf(data)]

\* The directory without any file (or not made yet).
EmptyDir == [n \in {} |-> Tab_to_dict(Tab("", <<>>))]
\* app_main.py:92-94: one file, named after the tab, written over what is there.
WriteTab(dir, tab) ==
  [n \in DOMAIN dir \cup {tab.name} |-> IF n = tab.name THEN Tab_to_dict(tab) ELSE dir[n]]
\* app_main.py:89-94: the tabs are written in list order.
RECURSIVE main_save_tabs(_, _)
main_save_tabs(dir, tbs) ==
  IF tbs = <<>> THEN dir ELSE main_save_tabs(WriteTab(dir, Head(tbs)), Tail(tbs))
\* The orders os.listdir may give the files of dir in.
Listings(dir) ==
  {s \in [1..Cardinality(DOMAIN dir) -> DOMAIN dir] : SeqToSet(s) = DOMAIN dir}
\* app_main.py:79-87, for one listing order.
main_load_tabs(dir, listing) == [i \in 1..Len(listing) |-> Tab_from_dict(dir[listing[i]])]

\* ------------------------------------------------------------ app_main: handlers
mainFrame == UNCHANGED <<app, raised, dsVars, past>>
names(tbs) == {tbs[i].name : i \in 1..Len(tbs)}
\* del s[k].
DelAt(s, k) == [i \in 1..(Len(s) - 1) |-> IF i < k THEN s[i] ELSE s[i + 1]]

\* app_main.py:114-119.
create_tab(name) ==
  /\ Running("app_main")
  /\ current = 0
  /\ Len(main_tabs) < MaxMainTabs
  /\ main_tabs' = Append(main_tabs, Tab(name, <<>>))
  /\ DATA_DIR' = main_save_tabs(DATA_DIR, main_tabs')
  /\ issued' = Append(issued, <<>>)
  /\ deleted' = deleted \ {name}
  /\ UNCHANGED <<current, clock>>
  /\ mainFrame

\* app_main.py:132-136: modify_tab, action "c".
modify_tab_change(tab_idx, new_name) ==
  /\ Running("app_main")
  /\ current = 0
  /\ tab_idx \in 1..Len(main_tabs)
  /\ main_tabs' = [main_tabs EXCEPT ![tab_idx].name = new_name]
  /\ DATA_DIR' = main_save_tabs(DATA_DIR, main_tabs')
  /\ deleted' = deleted \ {new_name}
  /\ UNCHANGED <<current, clock, issued>>
  /\ mainFrame

\* app_main.py:137-141: modify_tab, action "d", confirmed.
modify_tab_delete(tab_idx) ==
  /\ Running("app_main")
  /\ current = 0
  /\ tab_idx \in 1..Len(main_tabs)
  /\ main_tabs' = DelAt(main_tabs, tab_idx)
  /\ DATA_DIR' = main_save_tabs(DATA_DIR, main_tabs')
  /\ issued' = DelAt(issued, tab_idx)
  /\ deleted' = IF main_tabs[tab_idx].name \in names(main_tabs') THEN deleted
                ELSE deleted \cup {main_tabs[tab_idx].name}
  /\ UNCHANGED <<current, clock>>
  /\ mainFrame

\* app_main.py:389-394: a tab is chosen and task_operations starts on it.
select_tab(tab_idx) ==
  /\ Running("app_main")
  /\ current = 0
  /\ tab_idx \in 1..Len(main_tabs)
  /\ current' = tab_idx
  /\ UNCHANGED <<main_tabs, DATA_DIR, clock, issued, deleted>>
  /\ mainFrame

\* app_main.py:207-208 and 395: "Back to Tabs", then save_tabs(tabs).
back_to_tabs ==
  /\ Running("app_main")
  /\ current # 0
  /\ current' = 0
  /\ DATA_DIR' = main_save_tabs(DATA_DIR, main_tabs)
  /\ UNCHANGED <<main_tabs, clock, issued, deleted>>
  /\ mainFrame

\* app_main.py:229-238.
MainNewTask(id, title, state, comment, now) ==
  [id |-> id, title |-> title, state |-> state, comment |-> comment,
   created_at |-> now, modified_at |-> now, history |-> << <<now, "Task created">> >>]
\* A faulty counter that skips an id.
CounterSkips(n) == n + 2
\* app_main.py:241: tab.task_counter += 1.
CounterAfterAdd(n) == n + 1

\* app_main.py:220-243.
add_task(title, state, comment) ==
  /\ Running("app_main")
  /\ current # 0
  /\ state \in DOMAIN STATE_MAP
  /\ \E now \in Now :
       /\ clock' = now
       /\ main_tabs' = [main_tabs EXCEPT
            ![current].tasks = Append(@, MainNewTask(main_tabs[current].task_counter,
                                                     title, state, comment, now)),
            ![current].task_counter = CounterAfterAdd(@)]
  /\ DATA_DIR' = main_save_tabs(DATA_DIR, <<main_tabs'[current]>>)
  /\ issued' = [issued EXCEPT ![current] = Append(@, main_tabs[current].task_counter)]
  /\ UNCHANGED <<current, deleted>>
  /\ mainFrame

\* A faulty description that lists every field, changed or not.
ChangesDescribeAll(task, new_title, new_state, new_comment) ==
  << <<"Title", task.title, new_title>>,
     <<"State", STATE_MAP[task.state], STATE_MAP[new_state]>>,
     <<"Comment", task.comment, new_comment>> >>
\* app_main.py:265-273: the descriptions of what changes.
Changes(task, new_title, new_state, new_comment) ==
  (IF new_title # task.title THEN << <<"Title", task.title, new_title>> >> ELSE <<>>)
  \o (IF new_state # task.state
      THEN << <<"State", STATE_MAP[task.state], STATE_MAP[new_state]>> >> ELSE <<>>)
  \o (IF new_comment # task.comment
      THEN << <<"Comment", task.comment, new_comment>> >> ELSE <<>>)

\* app_main.py:245-285. An id no task of the tab has is reported and nothing
\* changes; so is an edit that changes nothing.
modify_task(task_id, new_title, new_state, new_comment) ==
  /\ Running("app_main")
  /\ current # 0
  /\ new_state \in DOMAIN STATE_MAP
  /\ LET ts == main_tabs[current].tasks IN
     IF task_id \notin ids(ts) \/ Changes(ts[IndexOfId(ts, task_id)], new_title,
                                         new_state, new_comment) = <<>>
     THEN UNCHANGED <<main_tabs, DATA_DIR, clock>>
     ELSE LET k == IndexOfId(ts, task_id) IN
          /\ \E now \in Now :
               /\ clock' = now
               /\ main_tabs' = [main_tabs EXCEPT ![current].tasks[k] =
                    [@ EXCEPT !.title = new_title, !.state = new_state,
                              !.comment = new_comment, !.modified_at = now,
                              !.history = Append(@, <<now, Changes(ts[k], new_title,
                                                          new_state, new_comment)>>)]]
          /\ DATA_DIR' = main_save_tabs(DATA_DIR, <<main_tabs'[current]>>)
  /\ UNCHANGED <<current, issued, deleted>>
  /\ mainFrame

\* app_main.py:299: tab.tasks.remove(task).
RemoveTask(ts, task_id) == DelAt(ts, IndexOfId(ts, task_id))

\* A faulty delete that removes the first task of the tab when no task has
\* the id.
delete_task_any(task_id, confirmed) ==
  /\ Running("app_main")
  /\ current # 0
  /\ IF confirmed /\ main_tabs[current].tasks # <<>>
     THEN /\ main_tabs' = [main_tabs EXCEPT ![current].tasks =
                             IF task_id \in ids(@) THEN RemoveTask(@, task_id) ELSE Tail(@)]
          /\ DATA_DIR' = main_save_tabs(DATA_DIR, <<main_tabs'[current]>>)
     ELSE UNCHANGED <<main_tabs, DATA_DIR>>
  /\ UNCHANGED <<current, clock, issued, deleted>>
  /\ mainFrame
\* app_main.py:287-306.
delete_task(task_id, confirmed) ==
  /\ Running("app_main")
  /\ current # 0
  /\ IF task_id \in ids(main_tabs[current].tasks) /\ confirmed
     THEN /\ main_tabs' = [main_tabs EXCEPT ![current].tasks = RemoveTask(@, task_id)]
          /\ DATA_DIR' = main_save_tabs(DATA_DIR, <<main_tabs'[current]>>)
     ELSE UNCHANGED <<main_tabs, DATA_DIR>>
  /\ UNCHANGED <<current, clock, issued, deleted>>
  /\ mainFrame

\* The program ends (app_main.py:209-211 or 386-388) and is started again:
\* run_app's load_tabs (app_main.py:359).
restart_main ==
  /\ app = "app_main"
  /\ \E listing \in Listings(DATA_DIR) :
       /\ main_tabs' = main_load_tabs(DATA_DIR, listing)
       /\ issued' = [i \in 1..Len(listing) |-> <<>>]
  /\ current' = 0
  /\ UNCHANGED <<DATA_DIR, clock, deleted>>
  /\ mainFrame

\* ------------------------------------------------------------ the specification
InitMain ==
  /\ main_tabs = <<>>
  /\ current = 0
  /\ DATA_DIR = EmptyDir

Init ==
  /\ app \in Apps
  /\ clock = 0
  /\ raised = FALSE
  /\ InitDeepseek
  /\ InitMain
  /\ issued = <<>>
  /\ past = {}
  /\ deleted = {}

\* The handlers of app_deepseek a user starts from the main screen.
DeepseekScreen ==
  \/ \E tab \in TabInputs : on_list_view_selected(tab)
  \/ \E row \in 1..MaxClock : on_data_table_row_selected(row)
  \/ action_add_task
  \/ action_delete_task
  \/ action_modify_task
  \/ action_add_tab
  \/ action_modify_tab
  \/ action_delete_tab
  \/ action_file_tasks
\* The handlers of app_deepseek a mounted modal calls; renames are the names
\* the user types into the rename modal.
DeepseekModalWith(renames) ==
  \/ \E title \in {"t"} : add_task_title(title)
  \/ \E comment \in Comments : add_task_comment(comment)
  \/ \E m \in BagToSet(modals), confirmed \in BOOLEAN : delete_task_confirmed(m, confirmed)
  \/ \E choice \in {"Title", "Comment", "State", "Tab"} : handle_modify_choice(choice)
  \/ \E m \in BagToSet(modals) : \E value \in FieldInputs(m) : update_task_field(m, value)
  \/ \E tab \in TabInputs : add_new_tab(tab)
  \/ \E m \in BagToSet(modals), new_tab \in renames : modify_tab_callback(m, new_tab)
  \/ \E m \in BagToSet(modals), confirmed \in BOOLEAN : delete_tab_confirmed(m, confirmed)
  \/ \E m \in BagToSet(modals) : cancel_modal(m)
DeepseekModal == DeepseekModalWith(TabInputs)
OtherScreen ==
  \/ \E label \in TabInputs : other_on_list_view_selected(label)
  \/ other_action_add_task
  \/ other_action_add_label
  \/ other_action_modify_label
  \/ other_action_file_tasks
OtherModalWith(renames) ==
  \/ \E label \in TabNames : other_add_task_label(label)
  \/ \E title \in {"t"} : other_add_task_title(title)
  \/ \E comment \in Comments : other_add_task_comment(comment)
  \/ \E state \in OtherStateInputs : other_add_task_state(state)
  \/ \E label \in TabInputs : other_add_new_label(label)
  \/ \E m \in BagToSet(modals), new_label \in renames :
       other_modify_label_callback(m, new_label)
  \/ \E m \in BagToSet(modals) : other_cancel_modal(m)
OtherModal == OtherModalWith(TabInputs)
Main ==
  \/ \E name \in TabNames : create_tab(name)
  \/ \E tab_idx \in 1..MaxMainTabs, new_name \in TabNames : modify_tab_change(tab_idx, new_name)
  \/ \E tab_idx \in 1..MaxMainTabs : modify_tab_delete(tab_idx)
  \/ \E tab_idx \in 1..MaxMainTabs : select_tab(tab_idx)
  \/ back_to_tabs
  \/ \E title \in {"t"}, state \in MainAddStates, comment \in Comments :
       add_task(title, state, comment)
  \/ \E task_id \in 1..MaxClock, new_title \in MainEditTitles, new_state \in MainStateInputs,
        new_comment \in Comments : modify_task(task_id, new_title, new_state, new_comment)
  \/ \E task_id \in 1..MaxClock, confirmed \in BOOLEAN : delete_task(task_id, confirmed)
  \/ restart_main

\* No modal is mounted: the user is at the main screen.
Idle == modals = EmptyBag

\* Each program, used one dialog at a time: the user answers or cancels a
\* modal before starting anything else.
Next ==
  \/ Idle /\ DeepseekScreen
  \/ DeepseekModal
  \/ restart_deepseek
  \/ Idle /\ OtherScreen
  \/ OtherModal
  \/ restart_other
  \/ Main

Spec == Init /\ [][Next]_vars

\* app_deepseek with its modals left open while the user goes on pressing the
\* buttons of the main screen (the modals are widgets mounted beside the main
\* screen, app_deepseek.py:213-220, which stays usable).
NextInterleaved ==
  \/ DeepseekScreen
  \/ DeepseekModal
  \/ restart_deepseek

InitInterleaved == Init /\ app = "app_deepseek"
SpecInterleaved == InitInterleaved /\ [][NextInterleaved]_vars

\* app_deepseek and other_app, one dialog at a time, with a user who has a
\* third name at hand for a rename: a tab can then be renamed while two tabs
\* hold tasks.
DeepseekRenameScreen ==
  \/ \E tab \in TabInputs : on_list_view_selected(tab)
  \/ action_add_task
  \/ action_add_tab
  \/ action_modify_tab
DeepseekRenameModal ==
  \/ \E title \in {"t"} : add_task_title(title)
  \/ \E comment \in Comments : add_task_comment(comment)
  \/ \E tab \in TabInputs : add_new_tab(tab)
  \/ \E m \in BagToSet(modals), new_tab \in RenameInputs : modify_tab_callback(m, new_tab)
  \/ \E m \in BagToSet(modals) : cancel_modal(m)
OtherRenameScreen ==
  \/ \E label \in TabInputs : other_on_list_view_selected(label)
  \/ other_action_add_task
  \/ other_action_add_label
  \/ other_action_modify_label
NextRename ==
  \/ Idle /\ DeepseekRenameScreen
  \/ DeepseekRenameModal
  \/ restart_deepseek
  \/ Idle /\ OtherRenameScreen
  \/ OtherModalWith(RenameInputs)
  \/ restart_other

InitRename == Init /\ app \in {"app_deepseek", "other_app"}
SpecRename == InitRename /\ [][NextRename]_vars

\* The three programs, one dialog at a time, with a user who creates and
\* deletes tabs and tasks and edits none.
DeepseekGroupsScreen ==
  \/ \E tab \in TabInputs : on_list_view_selected(tab)
  \/ \E row \in 1..MaxClock : on_data_table_row_selected(row)
  \/ action_add_task
  \/ action_delete_task
  \/ action_add_tab
  \/ action_delete_tab
DeepseekGroupsModal ==
  \/ \E title \in {"t"} : add_task_title(title)
  \/ \E comment \in Comments : add_task_comment(comment)
  \/ \E m \in BagToSet(modals), confirmed \in BOOLEAN : delete_task_confirmed(m, confirmed)
  \/ \E tab \in TabInputs : add_new_tab(tab)
  \/ \E m \in BagToSet(modals), confirmed \in BOOLEAN : delete_tab_confirmed(m, confirmed)
  \/ \E m \in BagToSet(modals) : cancel_modal(m)
MainGroups ==
  \/ \E name \in TabNames : create_tab(name)
  \/ \E tab_idx \in 1..MaxMainTabs : modify_tab_delete(tab_idx)
  \/ \E tab_idx \in 1..MaxMainTabs : select_tab(tab_idx)
  \/ back_to_tabs
  \/ \E title \in {"t"}, state \in MainAddStates, comment \in Comments :
       add_task(title, state, comment)
  \/ \E task_id \in 1..MaxClock, confirmed \in BOOLEAN : delete_task(task_id, confirmed)
  \/ restart_main
NextGroups ==
  \/ Idle /\ DeepseekGroupsScreen
  \/ DeepseekGroupsModal
  \/ restart_deepseek
  \/ MainGroups

InitGroups == Init /\ app \in {"app_deepseek", "app_main"}
SpecGroups == InitGroups /\ [][NextGroups]_vars

\* ------------------------------------------------------------ properties
StrictlyIncreasing(s) == \A i, j \in 1..Len(s) : i < j => s[i] < s[j]

\* C1: within one session every newly created task gets an id strictly
\* greater than every id assigned before in its scope (the tab object in
\* app_main, the whole store in app_deepseek and other_app), whatever was
\* deleted in between: the ids handed out in a scope, in the order they were
\* handed out, are strictly increasing.
IdsStrictlyIncreasing ==
  IF app = "app_main"
  THEN \A k \in 1..Len(issued) : StrictlyIncreasing(issued[k])
  ELSE StrictlyIncreasing(issued)
\* C1 happens: two ids were handed out in this session of app_deepseek, the
\* task of the first is gone from the live list, that of the second is there.
IdIssuedAroundDeletion ==
  /\ app = "app_deepseek"
  /\ Len(issued) = 2
  /\ issued[1] \notin ids(tasks)
  /\ issued[2] \in ids(tasks)

\* C2: across sessions of one store (create, delete, file, restart) a newly
\* created task never gets an id that an earlier session of app_deepseek or
\* other_app already assigned, whether that task is live, deleted or archived.
NoIdReuseAcrossRestart ==
  app \in {"app_deepseek", "other_app"} => SeqToSet(issued) \cap past = {}

\* C3: in app_deepseek, modal chains left open included, every task of the
\* live list has a tab that is in self.tabs.
TasksReferToTabs ==
  app = "app_deepseek" => \A i \in 1..Len(tasks) : tasks[i].tab \in SeqToSet(tabs)

\* What a restart would load from the files as they are now.
MainOnDisk == {SeqToSet(main_load_tabs(DATA_DIR, listing)) : listing \in Listings(DATA_DIR)}

\* C4: after every operation the store, loaded at that moment, yields exactly
\* the groups and tasks in memory: in app_main the tabs read from task_data/
\* are the tabs of the list, one file per tab; in app_deepseek and other_app
\* tasks.json holds the live list and the tab file holds the registry.
DiskMatchesMemory ==
  /\ app = "app_main" =>
       /\ MainOnDisk = {SeqToSet(main_tabs)}
       /\ Cardinality(DOMAIN DATA_DIR) = Len(main_tabs)
  /\ app \in {"app_deepseek", "other_app"} =>
       /\ load_tasks(DATA_FILE) = tasks
       /\ load_tabs(TABS_FILE) = tabs

\* The store a save of tbs into an empty directory leaves.
SavedAlone(tbs) == main_save_tabs(EmptyDir, tbs)

TasksOfOthers(ts, g) == SelectSeq(ts, LAMBDA t : t.tab # g)

\* C6: a confirmed group deletion leaves no task of that group in the live
\* set, takes the group out of the registry and leaves the tasks of every
\* other group as they were, in their order. In app_deepseek the group is the
\* selected tab; in app_main it is the Tab object at the chosen position, and
\* the other Tab objects stay as they were, in their order.
DeleteGroupCascades ==
  [][ /\ (\E m \in BagToSet(modals) : delete_tab_confirmed(m, TRUE)) /\ ~raised' =>
           /\ selected_tab \notin SeqToSet(tabs')
           /\ \A i \in 1..Len(tasks') : tasks'[i].tab # selected_tab
           /\ tasks' = TasksOfOthers(tasks, selected_tab)
           /\ SeqToSet(tabs') = SeqToSet(tabs) \ {selected_tab}
      /\ \A tab_idx \in 1..MaxMainTabs : modify_tab_delete(tab_idx) =>
           /\ Len(main_tabs') = Len(main_tabs) - 1
           /\ \A i \in 1..Len(main_tabs') :
                main_tabs'[i] = IF i < tab_idx THEN main_tabs[i] ELSE main_tabs[i + 1]
           /\ (Cardinality(names(main_tabs)) = Len(main_tabs) =>
                 main_tabs[tab_idx].name \notin names(main_tabs'))
    ]_vars
\* C6 happens: app_main has deleted a tab that held a task (its file, which
\* no later save touches, still shows the task), no tab of that name is in
\* the list, and another tab still holds its task.
GroupWithTasksDeleted ==
  /\ app = "app_main"
  /\ \E g \in deleted : /\ g \notin names(main_tabs)
                        /\ g \in DOMAIN DATA_DIR
                        /\ DATA_DIR[g].tasks # <<>>
  /\ \E k \in 1..Len(main_tabs) : main_tabs[k].tasks # <<>>

\* C7: a deleted group stays deleted: as long as no group of that name is
\* created (or a group renamed to it), neither the registry nor the live set
\* shows it again, a restart included.
DeletedStaysDeleted ==
  \A g \in deleted :
    IF app = "app_main" THEN g \notin names(main_tabs)
    ELSE /\ g \notin SeqToSet(tabs)
         /\ \A i \in 1..Len(tasks) : tasks[i].tab # g

\* C8: creating a group under a name the registry already holds changes
\* neither the registry nor the tasks nor the files.
DuplicateCreateRefused ==
  [][ /\ \A name \in TabNames :
           (create_tab(name) /\ name \in names(main_tabs)) =>
             UNCHANGED <<main_tabs, DATA_DIR>>
      /\ \A tab \in TabNames :
           ((add_new_tab(tab) \/ other_add_new_label(tab)) /\ tab \in SeqToSet(tabs)) =>
             UNCHANGED <<tabs, tasks, DATA_FILE, TABS_FILE, ARCHIVE_FILE>>
    ]_vars

\* C9: the names of the groups in the registry are pairwise distinct.
GroupNamesDistinct ==
  /\ app = "app_main" => Cardinality(names(main_tabs)) = Len(main_tabs)
  /\ app \in {"app_deepseek", "other_app"} => Cardinality(SeqToSet(tabs)) = Len(tabs)

\* A rename step of app_deepseek (modify_tab_callback) or of other_app
\* (modify_label_callback) that is not refused.
RenameInDeepseek ==
  /\ \E m \in BagToSet(modals), new_tab \in RenameInputs : modify_tab_callback(m, new_tab)
  /\ tabs' # tabs
RenameInOther ==
  /\ \E m \in BagToSet(modals), new_label \in RenameInputs :
       other_modify_label_callback(m, new_label)
  /\ tabs' # tabs
\* The rename changes the group field of exactly the tasks of the old group
\* (the selected one) to the new name (the selected one afterwards), and
\* leaves number and order of the tasks alone.
GroupFieldRenamed ==
  /\ Len(tasks') = Len(tasks)
  /\ \A i \in 1..Len(tasks) :
       tasks'[i].tab = IF tasks[i].tab = selected_tab THEN selected_tab' ELSE tasks[i].tab
\* The fields of task i a rename has no business with.
SameButGroupAndStamp(i) ==
  /\ tasks'[i].id = tasks[i].id
  /\ tasks'[i].title = tasks[i].title
  /\ tasks'[i].comment = tasks[i].comment
  /\ tasks'[i].state = tasks[i].state
  /\ tasks'[i].created_at = tasks[i].created_at
SameStampAndHistory(i) ==
  /\ tasks'[i].last_modified = tasks[i].last_modified
  /\ tasks'[i].history = tasks[i].history

\* C10 as stated: a rename sets the group field on exactly the tasks of the
\* old group and leaves id, title, comment, state, created_at, last_modified
\* and history of every task unchanged, in app_deepseek and in other_app.
RenameChangesOnlyGroup ==
  [][ (RenameInDeepseek \/ RenameInOther) =>
        /\ GroupFieldRenamed
        /\ \A i \in 1..Len(tasks) : SameButGroupAndStamp(i) /\ SameStampAndHistory(i)
    ]_vars

\* C10 amended: a rename sets the group field on exactly the tasks of the old
\* group, keeps number and order of the tasks, and leaves id, title, comment,
\* state and created_at of every task unchanged. In app_deepseek last_modified
\* and history of every task are unchanged too. In other_app they are
\* unchanged for the tasks of the other groups, while every renamed task gets
\* the time of the rename as last_modified and exactly one more history entry,
\* dated with that time, after its old entries.
RenameChangesGroupAndLogsInOther ==
  [][ /\ RenameInDeepseek =>
           /\ GroupFieldRenamed
           /\ \A i \in 1..Len(tasks) : SameButGroupAndStamp(i) /\ SameStampAndHistory(i)
      /\ RenameInOther =>
           /\ GroupFieldRenamed
           /\ \A i \in 1..Len(tasks) :
                /\ SameButGroupAndStamp(i)
                /\ tasks[i].tab # selected_tab => SameStampAndHistory(i)
                /\ tasks[i].tab = selected_tab =>
                     /\ tasks'[i].last_modified = clock'
                     /\ clock' > clock
                     /\ Len(tasks'[i].history) = Len(tasks[i].history) + 1
                     /\ SubSeq(tasks'[i].history, 1, Len(tasks[i].history)) = tasks[i].history
                     /\ tasks'[i].history[Len(tasks'[i].history)][1] = clock'
    ]_vars
\* C10 happens: other_app has renamed the label of a task, whose history
\* shows the creation and then the change of label.
LabelRenamedWithTask ==
  /\ app = "other_app"
  /\ \E i \in 1..Len(tasks) :
       /\ Len(tasks[i].history) = 2
       /\ tasks[i].history[2][2] = "Label changed"
       /\ tasks[i].history[2][4] = tasks[i].tab
       /\ tasks[i].tab \in SeqToSet(tabs)

\* ------------------------------------------------------------ the forms
\* The three programs, one dialog at a time, with a user who only creates and
\* edits tasks and who types more into the forms: a title left empty, and a
\* second comment when editing.
AddTitles == {"", "t"}
EditComments == {"c", "d"}
\* The values the user gives the modal m of update_task_field.
EditInputs(m) ==
  CASE m.name = "title" -> Titles
    [] m.name = "comment" -> EditComments
    [] m.name = "state" -> StateInputs
    [] m.name = "tab" -> TabNames
    [] OTHER -> {}
DeepseekFormsScreen ==
  \/ \E tab \in TabNames : on_list_view_selected(tab)
  \/ \E row \in 1..MaxClock : on_data_table_row_selected(row)
  \/ action_add_task
  \/ action_modify_task
  \/ action_add_tab
DeepseekFormsModal ==
  \/ \E title \in AddTitles : add_task_title(title)
  \/ \E comment \in Comments : add_task_comment(comment)
  \/ \E choice \in {"Title", "Comment", "State", "Tab"} : handle_modify_choice(choice)
  \/ \E m \in BagToSet(modals) : \E value \in EditInputs(m) : update_task_field(m, value)
  \/ \E tab \in TabNames : add_new_tab(tab)
OtherFormsScreen ==
  \/ other_action_add_task
OtherFormsModal ==
  \/ \E label \in {"A"} : other_add_task_label(label)
  \/ \E title \in AddTitles : other_add_task_title(title)
  \/ \E comment \in Comments : other_add_task_comment(comment)
  \/ \E state \in OtherStateInputs : other_add_task_state(state)
MainForms ==
  \/ \E name \in {"A"} : create_tab(name)
  \/ \E tab_idx \in 1..MaxMainTabs : select_tab(tab_idx)
  \/ back_to_tabs
  \/ \E title \in AddTitles, state \in MainStateInputs, comment \in Comments :
       add_task(title, state, comment)
  \/ \E task_id \in 1..MaxClock, new_title \in Titles, new_state \in MainStateInputs,
        new_comment \in EditComments : modify_task(task_id, new_title, new_state, new_comment)

NextForms ==
  \/ Idle /\ DeepseekFormsScreen
  \/ DeepseekFormsModal
  \/ Idle /\ OtherFormsScreen
  \/ OtherFormsModal
  \/ MainForms

InitForms == Init
SpecForms == InitForms /\ [][NextForms]_vars

\* ------------------------------------------------------------ edits
\* What an entry of app_main's history says about the field f of an edit that
\* takes the task old to the values new_title, new_state, new_comment.
Described(f, old, new_title, new_state, new_comment) ==
  CASE f = "Title" -> <<"Title", old.title, new_title>>
    [] f = "State" -> <<"State", STATE_MAP[old.state], STATE_MAP[new_state]>>
    [] f = "Comment" -> <<"Comment", old.comment, new_comment>>
FieldChanged(f, old, new_title, new_state, new_comment) ==
  CASE f = "Title" -> old.title # new_title
    [] f = "State" -> old.state # new_state
    [] f = "Comment" -> old.comment # new_comment

UnchangedEditIsNoOp ==
  [][/\ \A task_id \in 1..MaxClock, new_title \in Titles, new_state \in MainStateInputs,
           new_comment \in EditComments :
          (/\ modify_task(task_id, new_title, new_state, new_comment)
           /\ task_id \in ids(main_tabs[current].tasks)
           /\ \A f \in {"Title", "State", "Comment"} :
                ~FieldChanged(f, main_tabs[current].tasks[
                                   IndexOfId(main_tabs[current].tasks, task_id)],
                              new_title, new_state, new_comment))
          => main_tabs' = main_tabs
     /\ \A m \in BagToSet(modals) : \A value \in EditInputs(m) :
          (/\ update_task_field(m, value)
           /\ modify_task_data \in ids(tasks)
           /\ tasks[IndexOfId(tasks, modify_task_data)][m.name] = value)
          => tasks' = tasks
    ]_vars

\* ------------------------------------------------------------ filing
\* app_deepseek and other/app.py, the two programs that have an archive, one
\* dialog at a time.
NextTui ==
  \/ Idle /\ DeepseekScreen
  \/ DeepseekModal
  \/ restart_deepseek
  \/ Idle /\ OtherScreen
  \/ OtherModal
  \/ restart_other

InitTui == Init /\ app \in {"app_deepseek", "other_app"}
SpecTui == InitTui /\ [][NextTui]_vars

\* A step of the filing handler of either TUI.
FilingStep == action_file_tasks \/ other_action_file_tasks
IsPrefix(s, t) == Len(s) <= Len(t) /\ SubSeq(t, 1, Len(s)) = s
\* The filing step moves exactly the finished tasks of all tabs: afterwards
\* the live list is the unfinished tasks in their order, the archive is its
\* previous content followed by the moved tasks in live order, and both are
\* what the files hold.
FilingMovesFinished ==
  FilingStep =>
    /\ tasks' = Filter(tasks, LAMBDA t : t.state # "finished")
    /\ \A i \in 1..Len(tasks') : tasks'[i].state # "finished"
    /\ load_tasks(ARCHIVE_FILE') = load_tasks(ARCHIVE_FILE)
                                     \o Filter(tasks, LAMBDA t : t.state = "finished")
    /\ load_tasks(DATA_FILE') = tasks'
\* The filing step comes back to its caller with the number of tasks moved.
FilingReportsCount ==
  FilingStep =>
    /\ raised' = FALSE
    /\ FilingReport(Finished(tasks)) = <<Len(Finished(tasks))>>

\* C13: filing moves exactly the finished live tasks, of every tab and
\* whatever tab is selected, to the archive: no finished task is left in the
\* live list, the archive is its previous content followed by the moved tasks
\* in live order, both are persisted, and the number of tasks moved is
\* reported to the caller.
FilingMovesAndReports == [][FilingMovesFinished /\ FilingReportsCount]_vars

NoneFinished(ts) == \A i \in 1..Len(ts) : ts[i].state # "finished"

\* C14: filing twice in a row is filing once: a filing step leaves no
\* finished task in the live list, and a filing step that finds no finished
\* task leaves the live list, the archive and both files as they are; so the
\* second of two runs changes nothing.
FilingIsIdempotent ==
  [][FilingStep =>
       /\ NoneFinished(tasks')
       /\ NoneFinished(tasks) => UNCHANGED <<tasks, ARCHIVE_FILE, DATA_FILE>>]_vars
\* app_deepseek after a filing that moved a task: the archive file exists and
\* the live list, finished tasks gone, is what the task file holds.
FiledOnce ==
  /\ app = "app_deepseek"
  /\ ARCHIVE_FILE.exists
  /\ Len(load_tasks(ARCHIVE_FILE)) >= 1
  /\ NoneFinished(tasks)
  /\ load_tasks(DATA_FILE) = tasks

\* The archived record a and the live record t are the same task: same id,
\* created at the same time.
SameTask(a, t) == a.id = t.id /\ a.created_at = t.created_at

\* C15: archival is one-way: no step of the TUIs removes a task from the
\* archive or changes an archived record (the archive after a step is the
\* archive before it, possibly with tasks appended), and no archived task is
\* in the live list.
ArchiveOnlyGrows ==
  [][/\ IsPrefix(load_tasks(ARCHIVE_FILE), load_tasks(ARCHIVE_FILE'))
     /\ \A i \in 1..Len(load_tasks(ARCHIVE_FILE')) : \A j \in 1..Len(tasks') :
          ~SameTask(load_tasks(ARCHIVE_FILE')[i], tasks'[j])]_vars
\* A task was archived and a task created later is in the live list.
LiveAfterArchival ==
  /\ app \in {"app_deepseek", "other_app"}
  /\ Len(load_tasks(ARCHIVE_FILE)) >= 1
  /\ Len(tasks) >= 1
  /\ tasks[1].created_at > load_tasks(ARCHIVE_FILE)[1].created_at

\* ------------------------------------------------------------ crashes
\* The process of app_deepseek is killed inside a handler that writes two
\* files, after the first file is written and before the second is. The memory
\* of the process is gone with it: the variables that model it keep their
\* values until restart_deepseek overwrites every one of them.
crashFrame ==
  /\ raised' = TRUE
  /\ UNCHANGED <<tasks, tabs, next_id, selected_tab, selected_task_id, modify_task_data,
                 detached, new_task_data, modals>>
  /\ UNCHANGED <<clock, issued, past, deleted>>
  /\ UNCHANGED <<app, mainVars>>
\* app_deepseek.py:382-390, killed between lines 386 and 388. The archive of
\* the model holds no more than MaxClock tasks after a crash.
crash_action_file_tasks ==
  /\ Running("app_deepseek")
  /\ Finished(tasks) # <<>>
  /\ Len(load_tasks(ARCHIVE_FILE)) + Len(Finished(tasks)) <= MaxClock
  /\ ARCHIVE_FILE' = save_tasks(extend(load_tasks(ARCHIVE_FILE), Finished(tasks)))
  /\ UNCHANGED <<DATA_FILE, TABS_FILE>>
  /\ crashFrame
\* app_deepseek.py:347-360, killed between lines 353 and 357.
crash_modify_tab_callback(m, new_tab) ==
  /\ Running("app_deepseek")
  /\ m.cb = "modify_tab_callback"
  /\ Mounted(m)
  /\ ~RenameRefused(tabs, new_tab)
  /\ selected_tab \in SeqToSet(tabs)
  /\ TABS_FILE' = save_tabs([tabs EXCEPT ![IndexOf(tabs, selected_tab)] = new_tab])
  /\ UNCHANGED <<DATA_FILE, ARCHIVE_FILE>>
  /\ crashFrame
\* app_deepseek.py:367-375, killed between lines 371 and 372.
crash_delete_tab_confirmed(m) ==
  /\ Running("app_deepseek")
  /\ m.cb = "delete_tab_confirmed"
  /\ Mounted(m)
  /\ selected_tab \in SeqToSet(tabs)
  /\ TABS_FILE' = save_tabs(Remove(tabs, selected_tab))
  /\ UNCHANGED <<DATA_FILE, ARCHIVE_FILE>>
  /\ crashFrame
Crash ==
  \/ crash_action_file_tasks
  \/ \E m \in BagToSet(modals), new_tab \in TabInputs : crash_modify_tab_callback(m, new_tab)
  \/ \E m \in BagToSet(modals) : crash_delete_tab_confirmed(m)

\* app_deepseek, one dialog at a time, with a process that can be killed.
NextCrash ==
  \/ Idle /\ DeepseekScreen
  \/ DeepseekModal
  \/ restart_deepseek
  \/ Crash

InitCrash == Init /\ app = "app_deepseek"
SpecCrash == InitCrash /\ [][NextCrash]_vars

\* What a start of app_deepseek loads from the three files (app_deepseek.py:
\* 150-160): the live tasks, the tabs and the archive.
Loaded(data_file, tabs_file, archive_file) ==
  <<load_tasks(data_file), RepairTabs(load_tabs(tabs_file), load_tasks(data_file)),
    load_tasks(archive_file)>>

\* C16: when the process is killed inside filing, renaming a tab or deleting a
\* tab before all the file writes of the operation are done, a restart loads
\* the state that was on disk before the operation began.
CrashRecoversFlushedState ==
  [][Crash => Loaded(DATA_FILE', TABS_FILE', ARCHIVE_FILE')
                = Loaded(DATA_FILE, TABS_FILE, ARCHIVE_FILE)]_vars

\* ------------------------------------------------------------ creation
\* C17: creating a task adds exactly one task, at the end of its group and to
\* no other group, and leaves the existing tasks as they are; the new task
\* has the id the counter showed before the call, created_at equal to
\* last_modified (the time of the call), the requested initial state (app_main;
\* app_deepseek asks for none and gives "in progress") and a history of one
\* entry; the counter is one more than before.
CreateAddsOneTask ==
  [][/\ \A title \in AddTitles, state \in MainStateInputs, comment \in Comments :
          add_task(title, state, comment)
          => LET old == main_tabs[current]
                 new == main_tabs'[current]
                 t == new.tasks[Len(new.tasks)]
             IN /\ Len(main_tabs') = Len(main_tabs)
                /\ \A i \in 1..Len(main_tabs) : i # current => main_tabs'[i] = main_tabs[i]
                /\ new.name = old.name
                /\ Len(new.tasks) = Len(old.tasks) + 1
                /\ SubSeq(new.tasks, 1, Len(old.tasks)) = old.tasks
                /\ t.id = old.task_counter
                /\ new.task_counter = old.task_counter + 1
                /\ t.created_at = clock' /\ t.modified_at = clock' /\ clock' > clock
                /\ t.title = title /\ t.comment = comment
                /\ t.state = state
                /\ Len(t.history) = 1
     /\ \A comment \in Comments :
          (add_task_comment(comment) /\ ~raised')
          => LET t == tasks'[Len(tasks')]
             IN /\ Len(tasks') = Len(tasks) + 1
                /\ SubSeq(tasks', 1, Len(tasks)) = tasks
                /\ t.tab = selected_tab
                /\ t.id = next_id
                /\ next_id' = next_id + 1
                /\ t.created_at = clock' /\ t.last_modified = clock' /\ clock' > clock
                /\ t.title = new_task_data["title"] /\ t.comment = comment
                /\ t.state = "in progress"
                /\ Len(t.history) = 1
                /\ tabs' = tabs
    ]_vars
\* An app_main tab after two creations, the second with the state "f".
TwoTasksCreated ==
  /\ app = "app_main"
  /\ \E i \in 1..Len(main_tabs) :
       /\ Len(main_tabs[i].tasks) = 2
       /\ main_tabs[i].tasks[2].id = 2
       /\ main_tabs[i].tasks[2].state = "f"
       /\ main_tabs[i].task_counter = 3

\* C18: a task cannot be created with an empty title: every task of the live
\* set has a title that is not empty.
TitlesNotEmpty ==
  /\ \A i \in 1..Len(tasks) : tasks[i].title # ""
  /\ \A g \in 1..Len(main_tabs) : \A i \in 1..Len(main_tabs[g].tasks) :
       main_tabs[g].tasks[i].title # ""

\* C19: creating a task with an initial state that is not one of the four
\* enumerated states fails and creates nothing: the live list, the id counter
\* and the task file are as before.
UnknownStateRefused ==
  [][\A state \in OtherStateInputs :
       (other_add_task_state(state) /\ LowerStrip(state) \notin state_colors)
       => UNCHANGED <<tasks, next_id, DATA_FILE>>]_vars

\* C20: every task of the live set has one of the four states of its
\* program: urgent, in progress, in pause, finished in app_deepseek and
\* other/app.py; u, p, g, f in app_main.
StatesEnumerated ==
  /\ \A i \in 1..Len(tasks) :
       tasks[i].state \in {"urgent", "in progress", "in pause", "finished"}
  /\ \A g \in 1..Len(main_tabs) : \A i \in 1..Len(main_tabs[g].tasks) :
       main_tabs[g].tasks[i].state \in {"u", "p", "g", "f"}
\* other/app.py holds a task created with the state typed as "bogus": its
\* history says it was created with the state it has, "in progress".
FallbackStateTask ==
  /\ app = "other_app"
  /\ \E i \in 1..Len(tasks) :
       /\ tasks[i].state = "in progress"
       /\ tasks[i].history[1] = <<tasks[i].created_at, "Task created with state",
                                  "in progress">>

\* ------------------------------------------------------------ histories
\* The three programs, one dialog at a time; the user of app_main creates,
\* renames and edits, and deletes nothing.
MainKeeps ==
  \/ \E name \in TabNames : create_tab(name)
  \/ \E tab_idx \in 1..MaxMainTabs, new_name \in TabNames : modify_tab_change(tab_idx, new_name)
  \/ \E tab_idx \in 1..MaxMainTabs : select_tab(tab_idx)
  \/ back_to_tabs
  \/ \E title \in {"t"}, state \in MainAddStates, comment \in Comments :
       add_task(title, state, comment)
  \/ \E task_id \in 1..MaxClock, new_title \in MainEditTitles, new_state \in MainStateInputs,
        new_comment \in Comments : modify_task(task_id, new_title, new_state, new_comment)
  \/ restart_main
NextHistory ==
  \/ Idle /\ DeepseekScreen
  \/ DeepseekModal
  \/ restart_deepseek
  \/ Idle /\ OtherScreen
  \/ OtherModal
  \/ restart_other
  \/ MainKeeps

InitHistory == Init
SpecHistory == InitHistory /\ [][NextHistory]_vars

\* The histories of the tasks of the tab old, position by position, are
\* prefixes of those of the tab new.
HistoriesGrow(old, new) ==
  \A i \in 1..Len(old.tasks) :
    i <= Len(new.tasks) =>
      /\ new.tasks[i].id = old.tasks[i].id
      /\ IsPrefix(old.tasks[i].history, new.tasks[i].history)

\* C21: a task's history is append-only: across every step (edit, rename of
\* its tab, move to another tab, filing, restart from the files) the history
\* a task had before the step is a prefix of the history it has after it. In
\* app_deepseek and other/app.py a task is known by its id. In app_main,
\* where this user deletes nothing, a task keeps its place in its Tab object
\* during a session, and a restart loads, for every tab whose name no other
\* tab has, the tab of that name with the histories it had in memory.
HistoryAppendOnly ==
  [][/\ \A i \in 1..Len(tasks) : \A j \in 1..Len(tasks') :
          tasks[i].id = tasks'[j].id => IsPrefix(tasks[i].history, tasks'[j].history)
     /\ IF restart_main
        THEN \A g \in 1..Len(main_tabs) :
               (\A k \in 1..Len(main_tabs) : main_tabs[k].name = main_tabs[g].name => k = g)
               => \E h \in 1..Len(main_tabs') :
                    /\ main_tabs'[h].name = main_tabs[g].name
                    /\ Len(main_tabs'[h].tasks) = Len(main_tabs[g].tasks)
                    /\ HistoriesGrow(main_tabs[g], main_tabs'[h])
        ELSE \A g \in 1..Len(main_tabs) :
               /\ g <= Len(main_tabs')
               /\ Len(main_tabs'[g].tasks) >= Len(main_tabs[g].tasks)
               /\ HistoriesGrow(main_tabs[g], main_tabs'[g])
    ]_vars
\* app_deepseek, started again after it had issued an id, holds a task with
\* two history entries.
HistoryKeptAcrossRestart ==
  /\ app = "app_deepseek"
  /\ past # {}
  /\ \E i \in 1..Len(tasks) : Len(tasks[i].history) = 2

\* ------------------------------------------------------------ app.py and the legacy records
\* app.py keeps a list of Task objects (id, title, main_state, sub_state,
\* created_at, history) in tasks.json, the file other/app.py reads its tasks
\* from. Its list is modelled by tasks, its file by DATA_FILE.
LegacyIds == {"1a", "2b"}
LegacyMainStates == {"not started", "done"}
LegacySubStates == {"None", "Urgent"}
\* app.py:20-28.
legacy_to_dict(t) ==
  [id |-> t.id, title |-> t.title, main_state |-> t.main_state, sub_state |-> t.sub_state,
   created_at |-> t.created_at, history |-> t.history]
\* app.py:48-50.
legacy_save_tasks(ts) == File([i \in 1..Len(ts) |-> legacy_to_dict(ts[i])])
legacyFrame ==
  /\ UNCHANGED <<app, raised, tabs, next_id, selected_tab, selected_task_id, modify_task_data,
                 detached, new_task_data, modals, ARCHIVE_FILE, TABS_FILE>>
  /\ UNCHANGED <<mainVars, issued, past, deleted>>
\* app.py:88-100. task_id is the start of a fresh uuid4.
legacy_add_task(title, main_state, sub_state, task_id) ==
  /\ Running("app")
  /\ task_id \notin ids(tasks)
  /\ \E now \in Now :
       /\ clock' = now
       /\ tasks' = Append(tasks,
            [id |-> task_id, title |-> title, main_state |-> main_state,
             sub_state |-> sub_state, created_at |-> now,
             history |-> << <<now, "Task created with state", main_state, sub_state>> >>])
  /\ DATA_FILE' = legacy_save_tasks(tasks')
  /\ legacyFrame
\* app.py:102-122.
legacy_change_task(task_id, new_main_state, new_sub_state, confirmed) ==
  /\ Running("app")
  /\ IF task_id \in ids(tasks) /\ confirmed
     THEN LET k == IndexOfId(tasks, task_id) IN
          /\ \E now \in Now :
               /\ clock' = now
               /\ tasks' = [tasks EXCEPT ![k] =
                    [@ EXCEPT !.main_state = new_main_state, !.sub_state = new_sub_state,
                              !.history = Append(@, <<now, "Changed", tasks[k].main_state,
                                                      new_main_state, tasks[k].sub_state,
                                                      new_sub_state>>)]]
          /\ DATA_FILE' = legacy_save_tasks(tasks')
     ELSE UNCHANGED <<clock, tasks, DATA_FILE>>
  /\ legacyFrame

\* The fields of other/app.py's Task (other/app.py:18-27); label is modelled
\* by tab.
OtherTaskFields ==
  {"id", "tab", "title", "comment", "state", "created_at", "last_modified", "history"}
\* other/app.py:43-47: main_state becomes state, sub_state is dropped.
Migrate(item) ==
  LET renamed == IF "main_state" \in DOMAIN item
                 THEN [k \in (DOMAIN item \ {"main_state"}) \cup {"state"} |->
                         IF k = "state" THEN item["main_state"] ELSE item[k]]
                 ELSE item
  IN IF "sub_state" \in DOMAIN renamed
     THEN [k \in DOMAIN renamed \ {"sub_state"} |-> renamed[k]]
     ELSE renamed
\* other/app.py:33-34: Task(**data) raises TypeError when a field of the
\* dataclass has no key in data or a key of data is no field.
TaskAccepts(data) == DOMAIN data = OtherTaskFields
\* other/app.py:37-50: the tasks loaded, or the error raised while loading.
other_load_tasks(f) ==
  IF ~f.exists THEN [ok |-> TRUE, tasks |-> <<>>]
  ELSE IF \A i \in 1..Len(f.data) : TaskAccepts(Migrate(f.data[i]))
       THEN [ok |-> TRUE, tasks |-> [i \in 1..Len(f.data) |-> Migrate(f.data[i])]]
       ELSE [ok |-> FALSE, tasks |-> <<>>]
\* other/app.py is started in the directory of the files: __init__
\* (other/app.py:113-125). An error raised by load_tasks ends the program
\* before it has written anything.
other_start ==
  /\ app \in {"app", "other_app"}
  /\ app' = "other_app"
  /\ LET loaded == other_load_tasks(DATA_FILE) IN
     IF loaded.ok
     THEN /\ raised' = FALSE
          /\ tasks' = loaded.tasks
          /\ tabs' = RepairTabs(load_tabs(TABS_FILE), tasks')
          /\ TABS_FILE' = save_tabs(tabs')
          /\ next_id' = InitNextId(tasks')
     ELSE /\ raised' = TRUE
          /\ tasks' = <<>>
          /\ tabs' = <<>>
          /\ next_id' = 1
          /\ UNCHANGED TABS_FILE
  /\ selected_tab' = "All"
  /\ new_task_data' = EmptyDict
  /\ modals' = EmptyBag
  /\ issued' = <<>>
  /\ past' = past \cup SeqToSet(issued)
  /\ UNCHANGED <<DATA_FILE, ARCHIVE_FILE, deleted, clock>>
  /\ UNCHANGED <<mainVars, selected_task_id, modify_task_data, detached>>

\* app.py, or other/app.py, used on an empty directory; other/app.py can be
\* started on the files either of them has left.
Legacy ==
  \/ \E title \in {"t"}, main_state \in LegacyMainStates, sub_state \in LegacySubStates,
        task_id \in LegacyIds : legacy_add_task(title, main_state, sub_state, task_id)
  \/ \E task_id \in LegacyIds, new_main_state \in LegacyMainStates,
        new_sub_state \in LegacySubStates, confirmed \in BOOLEAN :
       legacy_change_task(task_id, new_main_state, new_sub_state, confirmed)
NextLegacy ==
  \/ Legacy
  \/ Idle /\ OtherFormsScreen
  \/ OtherFormsModal
  \/ other_start

InitLegacy ==
  /\ app \in {"app", "other_app"}
  /\ clock = 0
  /\ raised = FALSE
  /\ tasks = <<>>
  /\ tabs = <<>>
  /\ next_id = 1
  /\ selected_tab = "All"
  /\ selected_task_id = 0
  /\ modify_task_data = 0
  /\ detached = NoTask
  /\ new_task_data = EmptyDict
  /\ modals = EmptyBag
  /\ DATA_FILE = NoFile
  /\ ARCHIVE_FILE = NoFile
  /\ TABS_FILE = IF app = "app" THEN NoFile ELSE File(<<>>)
  /\ InitMain
  /\ issued = <<>>
  /\ past = {}
  /\ deleted = {}
SpecLegacy == InitLegacy /\ [][NextLegacy]_vars

\* C22: loading a task file in the legacy shape, as app.py wrote it, succeeds
\* and yields one task per record, its state the record's main_state, no
\* sub_state, its id, title, created_at and history those of the record;
\* loading a file other/app.py wrote yields its tasks unchanged.
LegacyRecordsLoad ==
  [][other_start =>
       /\ ~raised'
       /\ Len(tasks') = (IF DATA_FILE.exists THEN Len(DATA_FILE.data) ELSE 0)
       /\ \A i \in 1..Len(tasks') :
            LET item == DATA_FILE.data[i] IN
            IF "main_state" \in DOMAIN item
            THEN /\ tasks'[i].state = item.main_state
                 /\ "sub_state" \notin DOMAIN tasks'[i]
                 /\ \A k \in DOMAIN item \ {"main_state", "sub_state"} :
                      tasks'[i][k] = item[k]
            ELSE tasks'[i] = item
    ]_vars

\* ------------------------------------------------------------ damaged files
\* A file that exists and that json.load cannot parse (cut short, or
\* overwritten with something that is no JSON). The loaders call json.load
\* inside no try statement, so its JSONDecodeError leaves the loader.
Garble(f) == [exists |-> TRUE, data |-> f.data, garbled |-> TRUE]
Readable(f) == "garbled" \notin DOMAIN f
\* A faulty json.load that reads a damaged file as if it were whole.
json_never_raises(f) == FALSE
\* app_deepseek.py:38-39, 48-49, 58-59, app_main.py:84-85: json.load(f) raises.
json_raises(f) == ~Readable(f)
\* The program is closed and a file of its directory is damaged.
damageFrame ==
  /\ raised' = TRUE
  /\ UNCHANGED <<tasks, tabs, next_id, selected_tab, selected_task_id, modify_task_data,
                 detached, new_task_data, modals>>
  /\ UNCHANGED <<clock, issued, past, deleted, app, main_tabs, current>>
damage_tasks_file ==
  /\ Running("app_deepseek")
  /\ DATA_FILE' = Garble(DATA_FILE)
  /\ UNCHANGED <<ARCHIVE_FILE, TABS_FILE, DATA_DIR>>
  /\ damageFrame
damage_tabs_file ==
  /\ Running("app_deepseek")
  /\ TABS_FILE' = Garble(TABS_FILE)
  /\ UNCHANGED <<DATA_FILE, ARCHIVE_FILE, DATA_DIR>>
  /\ damageFrame
damage_archive_file ==
  /\ Running("app_deepseek")
  /\ ARCHIVE_FILE' = Garble(ARCHIVE_FILE)
  /\ UNCHANGED <<DATA_FILE, TABS_FILE, DATA_DIR>>
  /\ damageFrame
damage_tab_file(name) ==
  /\ Running("app_main")
  /\ name \in DOMAIN DATA_DIR
  /\ DATA_DIR' = [DATA_DIR EXCEPT ![name] =
                    [name |-> @.name, tasks |-> @.tasks, task_counter |-> @.task_counter,
                     garbled |-> TRUE]]
  /\ UNCHANGED <<DATA_FILE, ARCHIVE_FILE, TABS_FILE>>
  /\ damageFrame

\* app_deepseek.py:148-160: __init__ loads the tasks, then the tabs, and
\* writes the tabs file last; an error of json.load ends it where it is raised.
deepseek_start ==
  /\ app = "app_deepseek"
  /\ IF ~json_raises(DATA_FILE) /\ ~json_raises(TABS_FILE)
        THEN /\ raised' = FALSE
             /\ tasks' = load_tasks(DATA_FILE)
             /\ tabs' = RepairTabs(load_tabs(TABS_FILE), tasks')
             /\ TABS_FILE' = save_tabs(tabs')
             /\ next_id' = InitNextId(tasks')
        ELSE /\ raised' = TRUE
             /\ tasks' = <<>>
             /\ tabs' = <<>>
             /\ next_id' = 1
             /\ UNCHANGED TABS_FILE
  /\ selected_tab' = "All"
  /\ selected_task_id' = 0
  /\ modify_task_data' = 0
  /\ detached' = NoTask
  /\ new_task_data' = EmptyDict
  /\ modals' = EmptyBag
  /\ issued' = <<>>
  /\ past' = past \cup SeqToSet(issued)
  /\ UNCHANGED <<DATA_FILE, ARCHIVE_FILE, deleted, clock>>
  /\ UNCHANGED <<app, mainVars>>
\* app_deepseek.py:382-390, where load_archived_tasks (line 385) can raise.
deepseek_file_tasks ==
  IF Finished(tasks) = <<>> \/ ~json_raises(ARCHIVE_FILE)
  THEN action_file_tasks
  ELSE /\ Running("app_deepseek")
       /\ raised' = TRUE
       /\ UNCHANGED <<tasks, tabs, next_id, selected_tab, selected_task_id, modify_task_data,
                      detached, new_task_data, modals, DATA_FILE, ARCHIVE_FILE, TABS_FILE>>
       /\ UNCHANGED <<clock, issued, past, deleted>>
       /\ UNCHANGED <<app, mainVars>>
\* app_main.py:79-87 and 358-359: run_app loads every file of the directory.
main_start ==
  /\ app = "app_main"
  /\ IF \A name \in DOMAIN DATA_DIR : ~json_raises(DATA_DIR[name])
     THEN /\ raised' = FALSE
          /\ \E listing \in Listings(DATA_DIR) :
               /\ main_tabs' = main_load_tabs(DATA_DIR, listing)
               /\ issued' = [i \in 1..Len(listing) |-> <<>>]
     ELSE /\ raised' = TRUE
          /\ main_tabs' = <<>>
          /\ issued' = <<>>
  /\ current' = 0
  /\ UNCHANGED <<DATA_DIR, clock, deleted>>
  /\ UNCHANGED <<app, dsVars, past>>

DeepseekDamageScreen ==
  \/ \E tab \in {"A"} : on_list_view_selected(tab)
  \/ action_add_tab
  \/ \E row \in 1..MaxClock : on_data_table_row_selected(row)
  \/ action_add_task
  \/ action_modify_task
DeepseekDamageModal ==
  \/ \E tab \in {"A"} : add_new_tab(tab)
  \/ \E title \in {"t"} : add_task_title(title)
  \/ \E comment \in Comments : add_task_comment(comment)
  \/ \E choice \in {"State"} : handle_modify_choice(choice)
  \/ \E m \in BagToSet(modals) : \E value \in {"finished"} : update_task_field(m, value)
MainDamage ==
  \/ \E name \in TabNames : create_tab(name)
  \/ \E tab_idx \in 1..MaxMainTabs : select_tab(tab_idx)
  \/ back_to_tabs
  \/ \E title \in {"t"}, state \in MainAddStates, comment \in Comments :
       add_task(title, state, comment)
NextDamage ==
  \/ Idle /\ DeepseekDamageScreen
  \/ Idle /\ deepseek_file_tasks
  \/ DeepseekDamageModal
  \/ deepseek_start
  \/ damage_tasks_file
  \/ damage_tabs_file
  \/ damage_archive_file
  \/ MainDamage
  \/ main_start
  \/ \E name \in TabNames : damage_tab_file(name)

InitDamage == Init /\ app \in {"app_deepseek", "app_main"}
SpecDamage == InitDamage /\ [][NextDamage]_vars

\* C23: a start on a store that does not exist gives an empty collection and
\* no error; a start on a task file, tabs file or tab file that exists and
\* cannot be parsed ends with the error, and no step of the program writes
\* over a file that cannot be parsed (the archive included, which filing
\* reads before it writes).
DamagedFileIsKept ==
  [][/\ (deepseek_start /\ ~DATA_FILE.exists /\ Readable(TABS_FILE))
          => ~raised' /\ tasks' = <<>>
     /\ (deepseek_start /\ ~(Readable(DATA_FILE) /\ Readable(TABS_FILE))) => raised'
     /\ (main_start /\ DATA_DIR = EmptyDir) => ~raised' /\ main_tabs' = <<>>
     /\ (main_start /\ \E name \in DOMAIN DATA_DIR : ~Readable(DATA_DIR[name])) => raised'
     /\ ~Readable(DATA_FILE) => DATA_FILE' = DATA_FILE
     /\ ~Readable(TABS_FILE) => TABS_FILE' = TABS_FILE
     /\ ~Readable(ARCHIVE_FILE) => ARCHIVE_FILE' = ARCHIVE_FILE
     /\ \A name \in DOMAIN DATA_DIR :
          ~Readable(DATA_DIR[name]) =>
            name \in DOMAIN DATA_DIR' /\ DATA_DIR'[name] = DATA_DIR[name]
    ]_vars
\* app_deepseek was started on a damaged task file that held a task: the
\* start has failed and the file is as it was.
StartFailedOnDamage ==
  /\ app = "app_deepseek"
  /\ ~Readable(DATA_FILE)
  /\ Len(DATA_FILE.data) >= 1
  /\ tasks = <<>>
  /\ raised

\* ------------------------------------------------------------ app_main: the filter
\* app_main.py:347: choices=["u", "p", "g", "f"].
FilterChoices == {"u", "p", "g", "f"}
\* A faulty listing that shows every task of the tab.
display_all(tab, filtered_tasks) == tab.tasks
\* app_main.py:147-148: the rows display_tasks puts in its table;
\* "filtered_tasks if filtered_tasks else tab.tasks".
display_tasks(tab, filtered_tasks) ==
  IF filtered_tasks # <<>> THEN filtered_tasks ELSE tab.tasks
\* app_main.py:349: [t for t in tab.tasks if t.state == state].
filtered(tab, state) == SelectSeq(tab.tasks, LAMBDA t : t.state = state)
\* app_main.py:351-356: the rows filter_tasks shows; none under "No tasks found".
filter_listing(tab, state) ==
  IF filtered(tab, state) # <<>> THEN display_tasks(tab, filtered(tab, state)) ELSE <<>>
\* app_main.py:343-356: filter_tasks reads tab.tasks and prints; it assigns
\* nothing and calls no save.
filter_tasks(state) ==
  /\ Running("app_main")
  /\ current # 0
  /\ UNCHANGED vars

MainFilter ==
  \/ \E name \in TabNames : create_tab(name)
  \/ \E tab_idx \in 1..MaxMainTabs : select_tab(tab_idx)
  \/ back_to_tabs
  \/ \E title \in {"t"}, state \in MainStateInputs, comment \in Comments :
       add_task(title, state, comment)
  \/ \E task_id \in 1..MaxClock, new_title \in {"t"}, new_state \in MainStateInputs,
        new_comment \in Comments : modify_task(task_id, new_title, new_state, new_comment)
  \/ \E task_id \in 1..MaxClock, confirmed \in BOOLEAN : delete_task(task_id, confirmed)
  \/ restart_main
NextFilter ==
  \/ MainFilter
  \/ \E state \in FilterChoices : filter_tasks(state)
InitFilter == Init /\ app = "app_main"
SpecFilter == InitFilter /\ [][NextFilter]_vars

\* The places in the task list ts of the tasks whose state is s.
PlacesWithState(ts, s) == {i \in 1..Len(ts) : ts[i].state = s}
NamesTyped == {"", "A", "All"}
DeepseekNamesScreen ==
  \/ \E tab \in {"A", "All"} : on_list_view_selected(tab)
  \/ action_add_tab
  \/ action_modify_tab
  \/ action_add_task
DeepseekNamesModal ==
  \/ \E tab \in NamesTyped : add_new_tab(tab)
  \/ \E m \in BagToSet(modals), new_tab \in NamesTyped : modify_tab_callback(m, new_tab)
  \/ \E title \in {"t"} : add_task_title(title)
  \/ \E comment \in Comments : add_task_comment(comment)
  \/ \E m \in BagToSet(modals) : cancel_modal(m)
NextNames ==
  \/ Idle /\ DeepseekNamesScreen
  \/ DeepseekNamesModal
  \/ restart_deepseek
InitNames == Init /\ app = "app_deepseek"
SpecNames == InitNames /\ [][NextNames]_vars

\* C25: in app_deepseek, whatever names are typed into the add-tab and the
\* rename-tab modals, neither self.tabs nor the tabs file holds the name
\* "All".
AllNeverRegistered ==
  app = "app_deepseek" =>
    /\ "All" \notin SeqToSet(tabs)
    /\ "All" \notin SeqToSet(load_tabs(TABS_FILE))

\* ------------------------------------------------------------ requests for a task that is not there
\* app_deepseek.py:278-293 with its two early returns (279-281: nothing
\* selected; 283-286: no task of self.tasks has the selected id), which print
\* and leave everything as it is.
press_modify_task ==
  IF selected_task_id # 0 /\ selected_task_id \in ids(tasks)
  THEN action_modify_task
  ELSE Running("app_deepseek") /\ UNCHANGED vars
\* app_deepseek.py:256-276, likewise (257-259, 261-264).
press_delete_task ==
  IF selected_task_id # 0 /\ selected_task_id \in ids(tasks)
  THEN action_delete_task
  ELSE Running("app_deepseek") /\ UNCHANGED vars

DeepseekFindScreen ==
  \/ \E tab \in TabNames : on_list_view_selected(tab)
  \/ \E row \in 1..MaxClock : on_data_table_row_selected(row)
  \/ action_add_task
  \/ press_modify_task
  \/ press_delete_task
  \/ action_add_tab
  \/ action_delete_tab
DeepseekFindModal ==
  \/ \E title \in {"t"} : add_task_title(title)
  \/ \E comment \in Comments : add_task_comment(comment)
  \/ \E m \in BagToSet(modals), confirmed \in BOOLEAN : delete_task_confirmed(m, confirmed)
  \/ \E choice \in {"Title"} : handle_modify_choice(choice)
  \/ \E m \in BagToSet(modals) : \E value \in {"u"} : update_task_field(m, value)
  \/ \E tab \in TabNames : add_new_tab(tab)
  \/ \E m \in BagToSet(modals), confirmed \in BOOLEAN : delete_tab_confirmed(m, confirmed)
MainFind ==
  \/ \E name \in {"A"} : create_tab(name)
  \/ \E tab_idx \in 1..MaxMainTabs : select_tab(tab_idx)
  \/ back_to_tabs
  \/ \E title \in {"t"}, state \in MainAddStates, comment \in Comments :
       add_task(title, state, comment)
  \/ \E task_id \in 1..MaxClock, new_title \in MainEditTitles, new_state \in MainStateInputs,
        new_comment \in Comments : modify_task(task_id, new_title, new_state, new_comment)
  \/ \E task_id \in 1..MaxClock, confirmed \in BOOLEAN : delete_task(task_id, confirmed)
NextFind ==
  \/ Idle /\ DeepseekFindScreen
  \/ DeepseekFindModal
  \/ MainFind
InitFind == Init /\ app \in {"app_deepseek", "app_main"}
SpecFind == InitFind /\ [][NextFind]_vars

\* C26 as stated: a modify or delete request for an id that no task of the
\* selected tab has is refused and changes nothing; in app_deepseek, with a
\* tab selected and the selected id not among that tab's tasks, the request
\* mounts no dialog and leaves the tasks and the task file as they are.
RequestOutsideTabRefused ==
  [][(/\ Running("app_deepseek")
      /\ selected_tab # "All"
      /\ selected_task_id # 0
      /\ selected_task_id \notin ids(tasks_to_show)
      /\ (press_modify_task \/ press_delete_task))
       => UNCHANGED <<modals, modify_task_data, tasks, next_id, DATA_FILE>>
    ]_vars
\* C26, amended: a modify or delete request for an id that no task has in the
\* list the handler searches (the selected tab's tasks in app_main, the whole
\* live list in app_deepseek) changes nothing: the tasks, their fields and
\* histories, the id counter, the files and the clock are the same after it,
\* and no dialog is opened.
NotFoundChangesNothing ==
  [][/\ \A task_id \in 1..MaxClock :
          (/\ Running("app_main")
           /\ current # 0
           /\ task_id \notin ids(main_tabs[current].tasks)
           /\ \/ \E confirmed \in BOOLEAN : delete_task(task_id, confirmed)
              \/ \E new_title \in MainEditTitles, new_state \in MainStateInputs,
                    new_comment \in Comments :
                   modify_task(task_id, new_title, new_state, new_comment))
            => UNCHANGED <<main_tabs, DATA_DIR, clock, issued>>
     /\ (/\ Running("app_deepseek")
         /\ selected_task_id \notin ids(tasks)
         /\ (press_modify_task \/ press_delete_task))
          => UNCHANGED <<tasks, next_id, DATA_FILE, ARCHIVE_FILE, TABS_FILE, modals,
                         modify_task_data, clock>>
    ]_vars
\* A request that finds nothing can be made in app_main: the selected tab
\* holds a task (its second), and the task with the id 1 has been deleted.
RequestFindsNothing ==
  /\ app = "app_main"
  /\ ~raised
  /\ current # 0
  /\ main_tabs[current].tasks # <<>>
  /\ 1 \notin ids(main_tabs[current].tasks)

\* C27: in app_deepseek, with the main screen used while a modal is open, the
\* confirmation of a delete-task, delete-tab or rename-tab modal acts on the
\* task or tab its prompt names (the one selected when it was opened),
\* whatever is selected when it is answered, and never raises.
ConfirmationActsOnPrompted ==
  [][\A m \in BagToSet(modals) :
       /\ delete_task_confirmed(m, TRUE) => tasks' = TasksAfterDelete(tasks, m.id)
       /\ delete_tab_confirmed(m, TRUE) =>
            /\ ~raised'
            /\ m.name \in SeqToSet(tabs) =>
                 /\ tabs' = Remove(tabs, m.name)
                 /\ tasks' = TasksAfterDeleteTab(tasks, m.name)
       /\ \A new_tab \in TabInputs :
            modify_tab_callback(m, new_tab) =>
              /\ ~raised'
              /\ (~RenameRefused(tabs, new_tab) /\ m.name \in SeqToSet(tabs)) =>
                   tasks' = RetabTasks(tasks, m.name, new_tab)
    ]_vars

\* C28: in app_deepseek, with the main screen used while a modal is open,
\* every field update that update_task_field completes is made to a task of
\* the live list, and the task file written by that call holds the task with
\* the new value.
UpdateReachesLiveTask ==
  [][\A m \in BagToSet(modals) :
       \A value \in Titles \cup Comments \cup StateInputs \cup TabNames :
         update_task_field(m, value) =>
           /\ modify_task_data \in ids(tasks)
           /\ \E i \in 1..Len(DATA_FILE'.data) :
                /\ DATA_FILE'.data[i].id = modify_task_data
                /\ DATA_FILE'.data[i][m.name] = value
    ]_vars

\* C29: in app_deepseek, with a second add-task chain started while the
\* modals of the first are open, the last step of a chain (the comment
\* modal's OK) never fails: it creates one task, with the title entered
\* before and the comment entered now.
AddChainCompletes ==
  [][\A comment \in Comments :
       add_task_comment(comment) =>
         /\ ~raised'
         /\ Len(tasks') = Len(tasks) + 1
         /\ tasks'[Len(tasks')].comment = comment
    ]_vars

\* C30: in app_deepseek and other/app.py, after any sequence of creates,
\* edits, deletes, filings and restarts, no id is both in the task file and
\* in the archive file, and the archive holds at most one record per id.
LiveAndArchiveDisjoint ==
  LET live == load_tasks(DATA_FILE)
      archived == load_tasks(ARCHIVE_FILE)
  IN /\ ids(live) \cap ids(archived) = {}
     /\ \A i, j \in 1..Len(archived) : archived[i].id = archived[j].id => i = j

\* The places in the live list ts of the tasks that are not finished.
PlacesUnfinished(ts) == {i \in 1..Len(ts) : ts[i].state # "finished"}
\* C31: a filing step of app_deepseek or other/app.py touches nothing else:
\* the live tasks that are not finished are all kept, each with every field as
\* it was and in the same relative order, in memory and in the task file; the
\* records the archive held keep their content and their positions; and
\* self.tabs and the tabs file are unchanged, so a tab whose tasks were all
\* filed is still there.
FilingKeepsTheRest ==
  [][FilingStep =>
       LET P == PlacesUnfinished(tasks) IN
       /\ Len(tasks') = Cardinality(P)
       /\ \A i \in P : tasks'[Cardinality({j \in P : j <= i})] = tasks[i]
       /\ load_tasks(DATA_FILE') = tasks'
       /\ IsPrefix(load_tasks(ARCHIVE_FILE), load_tasks(ARCHIVE_FILE'))
       /\ tabs' = tabs
       /\ TABS_FILE' = TABS_FILE
    ]_vars
\* A filing has moved the only task of a tab to the archive and kept a task
\* of another tab: the emptied tab is still in the registry and its file.
TabEmptiedByFiling ==
  /\ app \in {"app_deepseek", "other_app"}
  /\ Len(tasks) >= 1
  /\ \E i \in 1..Len(load_tasks(ARCHIVE_FILE)) :
       LET a == load_tasks(ARCHIVE_FILE)[i] IN
       /\ a.tab \in SeqToSet(tabs)
       /\ a.tab \in SeqToSet(load_tabs(TABS_FILE))
       /\ \A j \in 1..Len(tasks) : tasks[j].tab # a.tab /\ tasks[j].created_at < a.created_at

\* ------------------------------------------------------------ start on files left behind
\* A task record of the task file: the id and the tab vary.
StoredTask(id, tab) ==
  [id |-> id, tab |-> tab, title |-> "t", comment |-> "c", state |-> "in progress",
   created_at |-> 0, last_modified |-> 0, history |-> << <<0, "Task created">> >>]
\* The task files the program is started on: none, or up to two records.
StoredTaskFiles ==
  {NoFile, File(<<>>)}
    \cup {File(<<StoredTask(1, a)>>) : a \in TabNames}
    \cup {File(<<StoredTask(1, a), StoredTask(2, b)>>) : a \in TabNames, b \in TabNames}
\* The tabs files it is started on: none, or up to two names, which need not
\* be those of the tasks and may repeat.
StoredTabFiles ==
  {NoFile, File(<<>>)}
    \cup {File(<<a>>) : a \in {"A", "C"}}
    \cup {File(<<a, b>>) : a \in {"A", "C"}, b \in {"A", "C"}}
\* The program is not running yet; its files are whatever was left in the
\* directory.
InitRepair ==
  /\ app \in {"app_deepseek", "other_app"}
  /\ clock = 0
  /\ raised = TRUE
  /\ tasks = <<>>
  /\ tabs = <<>>
  /\ next_id = 1
  /\ selected_tab = "All"
  /\ selected_task_id = 0
  /\ modify_task_data = 0
  /\ detached = NoTask
  /\ new_task_data = EmptyDict
  /\ modals = EmptyBag
  /\ DATA_FILE \in StoredTaskFiles
  /\ ARCHIVE_FILE = NoFile
  /\ TABS_FILE \in StoredTabFiles
  /\ InitMain
  /\ issued = <<>>
  /\ past = {}
  /\ deleted = {}
NextRepair ==
  \/ restart_deepseek
  \/ restart_other
  \/ Idle /\ (\E tab \in TabNames : on_list_view_selected(tab))
  \/ Idle /\ action_delete_tab
  \/ \E m \in BagToSet(modals), confirmed \in BOOLEAN : delete_tab_confirmed(m, confirmed)
  \/ Idle /\ (\E label \in TabNames : other_on_list_view_selected(label))
SpecRepair == InitRepair /\ [][NextRepair]_vars

\* A start of app_deepseek or other/app.py.
StartStep == restart_deepseek \/ restart_other
\* C32: when TaskManagerApp.__init__ has run on a task file and a tabs file it
\* can load, the tab of every loaded task is in self.tabs (self.labels) and in
\* the tabs file, the entries the tabs file held are kept at their places, and
\* the tasks in memory are the records of the task file, which is unchanged.
StartRepairsRegistry ==
  [][StartStep =>
       /\ ~raised'
       /\ tasks' = load_tasks(DATA_FILE)
       /\ DATA_FILE' = DATA_FILE
       /\ \A i \in 1..Len(tasks') :
            /\ tasks'[i].tab \in SeqToSet(tabs')
            /\ tasks'[i].tab \in SeqToSet(load_tabs(TABS_FILE'))
       /\ IsPrefix(load_tabs(TABS_FILE), tabs')
       /\ IsPrefix(load_tabs(TABS_FILE), load_tabs(TABS_FILE'))
    ]_vars
\* The program has started on a tabs file that named neither tab of the two
\* tasks: both tabs were added after the entry the file held.
RegistryRepaired ==
  /\ app \in {"app_deepseek", "other_app"}
  /\ ~raised
  /\ Len(tasks) = 2
  /\ tasks[1].tab = "B"
  /\ tasks[2].tab = "A"
  /\ tabs = <<"C", "B", "A">>
  /\ TABS_FILE = File(<<"C", "B", "A">>)

\* ------------------------------------------------------------ app_main: documents without a counter
\* A task record of a tab file.
StoredMainTask(id) ==
  [id |-> id, title |-> "t", state |-> "u", comment |-> "c", created_at |-> 0,
   modified_at |-> 0, history |-> << <<0, "Task created">> >>]
\* The documents of a tab A that hold no task_counter: no task, the tasks 1
\* and 2, or what is left of them once one was deleted.
DocumentsWithoutCounter ==
  {[name |-> "A", tasks |-> ts] :
     ts \in {<<>>, <<StoredMainTask(1)>>, <<StoredMainTask(2)>>,
             <<StoredMainTask(1), StoredMainTask(2)>>}}
\* app_main is not running yet; task_data is empty or holds such a document.
InitCounter ==
  /\ app = "app_main"
  /\ clock = 0
  /\ raised = TRUE
  /\ InitDeepseek
  /\ main_tabs = <<>>
  /\ current = 0
  /\ DATA_DIR \in {EmptyDir} \cup {[n \in {"A"} |-> d] : d \in DocumentsWithoutCounter}
  /\ issued = <<>>
  /\ past = {}
  /\ deleted = {}
NextCounter ==
  \/ main_start
  \/ \E name \in TabNames : create_tab(name)
  \/ \E tab_idx \in 1..MaxMainTabs : select_tab(tab_idx)
  \/ back_to_tabs
  \/ \E title \in {"t"}, state \in MainAddStates, comment \in Comments :
       add_task(title, state, comment)
  \/ \E task_id \in 1..(MaxClock + 2), confirmed \in BOOLEAN : delete_task(task_id, confirmed)
SpecCounter == InitCounter /\ [][NextCounter]_vars

\* C33: in app_main, in every state and for every tab, task_counter is
\* greater than the id of every task of the tab: after Tab.from_dict on a
\* document with or without a task_counter field, and after any adds and
\* deletes.
CounterAboveIds ==
  (app = "app_main" /\ ~raised) =>
    \A g \in 1..Len(main_tabs) : \A i \in 1..Len(main_tabs[g].tasks) :
      main_tabs[g].task_counter > main_tabs[g].tasks[i].id

=============================================================================
